---- MODULE Spec2Model ----
(***************************************************************************)
(* Model of the cache engine of mcp-cache (src/src/CacheManager.ts), of    *)
(* its mutex (src/src/AsyncMutex.ts) and of its encryption and access      *)
(* control (src/src/encryption.ts).  Spec is the engine in                 *)
(* non-version-aware mode, MaintainedSpec adds its timers and forceGC,     *)
(* PacedSpec has the timers fire around the GC cool-downs and adds         *)
(* setMemoryPressureThresholds, DestroySpec adds destroy, GuardedSpec is   *)
(* the engine with an access controller, DenyingSpec is the engine with an *)
(* access controller that denies set, SensitiveSpec is the engine with     *)
(* encryption enabled, VersionedSpec is the engine in version-aware mode   *)
(* with its file watchers, EncryptedSpec is that engine with encryption    *)
(* enabled, and MutexSpec is the mutex alone, shared by three tasks.       *)
(*                                                                         *)
(* Callers are processes.  A public operation is issued (lock() runs       *)
(* synchronously inside the call), waits in the mutex queue if the mutex   *)
(* is taken, and runs its body when it owns the mutex.  A body that does   *)
(* not suspend on I/O is one step, unlock() included.                      *)
(***************************************************************************)
EXTENDS Integers, Sequences, FiniteSets, TLC

\* ------------------------------------------------------------------ bounds
MaxEntries == 2        \* config.maxEntries of the modelled instance
MaxMemory == 320       \* config.maxMemory of the modelled instance (bytes)
MaxOps == 3            \* number of public operations issued in one behaviour
VersionedMaxEntries == 10   \* config.maxEntries of the version-aware instance
VersionedMaxMemory == 10000 \* config.maxMemory of the version-aware instance
MaxVersionedOps == 4        \* operations and file changes in one behaviour of
                            \* the version-aware instance

\* ------------------------------------------------------- program constants
DefaultTTL == 1        \* config.defaultTTL (seconds) of the modelled instance
ApproxOverhead == 100  \* approximateMemoryUsage: object overhead
EvictBatchLimit == 30  \* enforceMemoryLimitOptimized: batchSize * 3
NullValueTTL == 300    \* nullValueTTL (seconds)
LoaderErrorTTL == 60   \* cacheNullValue(key, 60)
RecalibrationTolerance == 1048576  \* recalculateMemoryUsage: 1024 * 1024
MemoryCheckInterval == 1000        \* memoryCheckInterval (ms)
FullGCInterval == 600000           \* fullGCInterval (ms)

Procs == {1, 2}
PlainKeys == {"a", "b", "c"}          \* the keys callers use without a version
Versions == {"1", "2", "3", "4"}      \* the version strings callers use
BaseKey == "a"                        \* the key callers use with a version

\* createVersionedKey: `${baseKey}@${version}`
createVersionedKey(baseKey, version) ==
  CASE version = "1" -> "a@1"
    [] version = "2" -> "a@2"
    [] version = "3" -> "a@3"
    [] version = "4" -> "a@4"

VersionedKeys == {createVersionedKey(BaseKey, v) : v \in Versions}
Keys == PlainKeys \cup VersionedKeys  \* every key the map can hold
None == "none"                     \* JavaScript undefined
\* The modification time of a path fs.stat rejects.
Missing == -1
\* config.accessControl is not given: the engine has no AccessController.
NoAccessController == [enabled |-> FALSE]
Paths == {"src", "dep"}            \* the file paths callers name
NoProc == 0                        \* no caller

\* A cached value is the string 'x'.repeat(n), represented by its length n.
\* Estimated sizes 104 and 222 bytes: three small entries fit MaxMemory, a
\* large one does not fit with a small one.
Values == {1, 60}

\* The instants the clock can show (ms).
Instants == {0, 300000}

\* The timers (constructor, lines 113-121) and forceGC run without the mutex.
\* A tick can fall between the instants at which callers act.
TickInstants == Instants \cup {2000}

\* memoryPressureLevels as declared (lines 37-42), in percent
DefaultLevels == [LOW |-> 50, MEDIUM |-> 70, HIGH |-> 85, CRITICAL |-> 95]

NoOp == [type |-> None]
NoResult == [kind |-> "none"]
Absent == [kind |-> "absent"]                    \* the call returned undefined
Ok == [kind |-> "ok"]
Val(v) == [kind |-> "value", v |-> v]
Bool(b) == [kind |-> "bool", v |-> b]
Err(c) == [kind |-> "error", code |-> c]
Pending == [kind |-> "pending"]
NoEntry == [absent |-> TRUE]
NoNode == [absent |-> TRUE]

VARIABLES
  cache,          \* Map<string, CacheEntry>
  accessOrder,    \* Map<string, {prev, next}>
  lruHead,
  lruTail,
  stats,          \* totalEntries, memoryUsage, hits, misses
  locked,         \* AsyncMutex.locked
  waitingQueue,   \* AsyncMutex.waitingQueue (the waiting processes, in order)
  now,            \* Date.now()
  pc,             \* position of every caller
  op,             \* the operation a caller is executing
  ret,            \* the return made by the last step, if it made one
  opCount,        \* operations issued so far
  introduced,     \* number of keys the callers have named so far
  pendingRequests,\* Map<string, Promise>: the caller whose load is registered
  promise,        \* the load promise of every caller: pending or settled
  nullValueCache, \* Map<string, number>: expiry time, 0 when absent
  loaderCalls,    \* history: loader invocations per key
  setOrder,       \* history: the keys set so far, while every operation issued
                  \* was a successful set of a new key
  lastSet,        \* history: per key, the last successful set not followed
                  \* by another write, delete or clear of the key
  loaderOut,      \* history: what the loader of a caller's load returned
  nullAt,         \* history: per key, when a loader last returned null (-1:
                  \* never)
  currentPressureLevel, \* "LOW", "MEDIUM", "HIGH" or "CRITICAL"
  lastGCTime,
  lastFullGC,
  lastMemoryCheck,
  versionAwareMode,     \* config.versionAwareMode
  fileWatchers,         \* Map<string, FSWatcher>: the watched paths
  dependencyGraph,      \* Map<string, Set<string>>: path -> effective keys
  mtime,                \* the file system: modification time per path, or
                        \* None for a path that does not exist
  setups,               \* the calls of setupDependencyWatching in progress
  accessController,     \* the AccessController of config.accessControl
  encryptionEnabled,    \* config.encryptionEnabled
  intervals,            \* cleanupInterval and statsUpdateInterval are set
  memoryPressureLevels, \* the thresholds of the pressure levels (percent)
  tickInstants,         \* the instants (ms) at which the timers of the
                        \* instance fire and forceGC is called
  sharedCounter,        \* the counter the bodies given to runExclusive share
  issued,               \* history: the callers of lock(), in call order
  granted               \* history: the bodies that began, in that order

engine == <<cache, accessOrder, lruHead, lruTail, stats>>
mutex == <<locked, waitingQueue>>
flight == <<pendingRequests, promise, nullValueCache, loaderCalls>>
ghost == <<setOrder, lastSet, loaderOut, nullAt>>
maintenance == <<currentPressureLevel, lastGCTime, lastFullGC, lastMemoryCheck>>
versioning == <<versionAwareMode, fileWatchers, dependencyGraph, mtime, setups>>
instance == <<accessController, encryptionEnabled, intervals,
              memoryPressureLevels, tickInstants>>
exclusive == <<sharedCounter, issued, granted>>
vars == <<cache, accessOrder, lruHead, lruTail, stats, locked, waitingQueue,
          now, pc, op, ret, opCount, introduced, pendingRequests, promise,
          nullValueCache, loaderCalls, setOrder, lastSet, loaderOut, nullAt,
          currentPressureLevel, lastGCTime, lastFullGC, lastMemoryCheck,
          versionAwareMode, fileWatchers, dependencyGraph, mtime, setups,
          accessController, encryptionEnabled, intervals,
          memoryPressureLevels, tickInstants, sharedCounter,
          issued, granted>>

\* config.maxEntries and config.maxMemory of the instance.
maxEntries == IF versionAwareMode THEN VersionedMaxEntries ELSE MaxEntries
maxMemory == IF versionAwareMode THEN VersionedMaxMemory ELSE MaxMemory

\* stats.hitRate is the fraction num / den (a percentage).
Percent(hits, total) ==
  IF total > 0 THEN [num |-> hits * 100, den |-> total]
               ELSE [num |-> 0, den |-> 1]

resetStats ==
  [totalEntries |-> 0, memoryUsage |-> 0, hits |-> 0, misses |-> 0,
   hitRate |-> Percent(0, 0)]

updateHitRate(E) ==
  [E EXCEPT !.stats.hitRate =
     Percent(E.stats.hits, E.stats.hits + E.stats.misses)]

\* this.stats.misses++; this.updateHitRate()
Missed(E) == updateHitRate([E EXCEPT !.stats.misses = @ + 1])

\* ------------------------------------------------------ the engine as value
\* The helpers below are the private methods of CacheManager; they take and
\* return the engine state E = [cache, accessOrder, lruHead, lruTail, stats].
Eng == [cache |-> cache, accessOrder |-> accessOrder, lruHead |-> lruHead,
        lruTail |-> lruTail, stats |-> stats]

Has(m, k) == k \in Keys /\ m[k] # NoEntry
CacheKeys(c) == {k \in Keys : c[k] # NoEntry}
CacheSize(c) == Cardinality(CacheKeys(c))

KeyLength(k) == IF k \in PlainKeys THEN 1 ELSE 3

approximateMemoryUsage(k, v) == KeyLength(k) * 2 + v * 2 + ApproxOverhead

isExpired(entry, t) == t > entry.created + entry.ttl * 1000

addToLRUChain(E, k) ==
  IF E.lruHead = None
    THEN [E EXCEPT !.accessOrder[k] = [prev |-> None, next |-> None],
                   !.lruHead = k, !.lruTail = k]
    ELSE [E EXCEPT !.accessOrder[k] = [prev |-> None, next |-> None]]

\* node.f = v when the node exists
SetField(ao, k, f, v) ==
  IF k # None /\ ao[k] # NoNode THEN [ao EXCEPT ![k][f] = v] ELSE ao

\* prevNode.next = next and nextNode.prev = prev, for the nodes that exist.
Unlink(ao, prev, next) ==
  SetField(SetField(ao, prev, "next", next), next, "prev", prev)

\* removeFromLRUChain for a node {prev, next}.
Removed(E, k, prev, next) ==
  [E EXCEPT !.accessOrder = [Unlink(@, prev, next) EXCEPT ![k] = NoNode],
            !.lruHead = IF prev # None THEN @ ELSE next,
            !.lruTail = IF next # None THEN @ ELSE prev]

removeFromLRUChain(E, k) ==
  IF E.accessOrder[k] = NoNode THEN E
  ELSE Removed(E, k, E.accessOrder[k].prev, E.accessOrder[k].next)

\* moveToHead for a node {prev, next} that is not the head.
Moved(E, k, prev, next) ==
  [E EXCEPT !.accessOrder =
              SetField([Unlink(@, prev, next) EXCEPT
                          ![k] = [prev |-> None, next |-> E.lruHead]],
                       E.lruHead, "prev", k),
            !.lruHead = k,
            !.lruTail = IF (IF next # None THEN @ ELSE prev) = None
                          THEN k
                          ELSE (IF next # None THEN @ ELSE prev)]

moveToHead(E, k) ==
  IF E.lruHead = k THEN E
  ELSE IF E.accessOrder[k] = NoNode THEN E
  ELSE Moved(E, k, E.accessOrder[k].prev, E.accessOrder[k].next)

\* The statement left out.
WithTotalStale(E) == E

\* this.stats.totalEntries = this.cache.size
WithTotal(E) == [E EXCEPT !.stats.totalEntries = CacheSize(E.cache)]

deleteInternal(E, k) ==
  IF k \in Keys /\ E.cache[k] # NoEntry
    THEN WithTotal(removeFromLRUChain(
           [E EXCEPT !.stats.memoryUsage = @ - E.cache[k].size,
                     !.cache[k] = NoEntry], k))
    ELSE E

RECURSIVE DeleteAll(_, _)
DeleteAll(E, ks) ==
  IF ks = <<>> THEN E ELSE DeleteAll(deleteInternal(E, Head(ks)), Tail(ks))

\* The collection loop of enforceMemoryLimitOptimized: walks prev-pointers from
\* lruTail; nothing is deleted until the loop is over.  After a push the loop
\* breaks on the entry of the next candidate.
BreaksOn(E, requiredSize, nxt, pushed) ==
  IF nxt = None THEN FALSE
  ELSE IF E.cache[nxt] = NoEntry THEN FALSE
  ELSE /\ E.stats.memoryUsage - E.cache[nxt].size + requiredSize <= maxMemory
       /\ CacheSize(E.cache) - Len(pushed) < maxEntries

PrevOf(E, current) ==
  IF E.accessOrder[current] = NoNode THEN None
                                     ELSE E.accessOrder[current].prev

RECURSIVE CollectKeys(_, _, _, _)
CollectKeys(E, requiredSize, current, keysToDelete) ==
  IF current # None
     /\ (E.stats.memoryUsage + requiredSize > maxMemory
         \/ CacheSize(E.cache) >= maxEntries)
     /\ Len(keysToDelete) < EvictBatchLimit
  THEN
    IF BreaksOn(E, requiredSize, PrevOf(E, current),
                Append(keysToDelete, current))
      THEN Append(keysToDelete, current)
      ELSE CollectKeys(E, requiredSize, PrevOf(E, current),
                       Append(keysToDelete, current))
  ELSE keysToDelete

\* The outcome of an eviction: the engine, whether MEMORY_LIMIT_EXCEEDED was
\* thrown, and the keys that were removed.
NoEviction(E) == [eng |-> E, threw |-> FALSE, evicted |-> {}]

AfterEviction(E, requiredSize, evicted) ==
  [eng |-> E, threw |-> E.stats.memoryUsage + requiredSize > maxMemory,
   evicted |-> evicted]

EvictKeys(E, requiredSize, keysToDelete) ==
  AfterEviction(DeleteAll(E, keysToDelete), requiredSize,
                {k \in Keys : /\ E.cache[k] # NoEntry
                              /\ \E i \in 1..Len(keysToDelete) :
                                   keysToDelete[i] = k})

enforceMemoryLimitOptimized(E, requiredSize) ==
  EvictKeys(E, requiredSize, CollectKeys(E, requiredSize, E.lruTail, <<>>))

needsEviction(E, memoryIncrease, isUpdate) ==
  \/ E.stats.memoryUsage + memoryIncrease > maxMemory
  \/ (~isUpdate /\ CacheSize(E.cache) >= maxEntries)

Enforce(E, memoryIncrease, isUpdate) ==
  IF needsEviction(E, memoryIncrease, isUpdate)
    THEN enforceMemoryLimitOptimized(E, memoryIncrease)
    ELSE NoEviction(E)

\* the optional ttl argument: <<>> when it is not given, <<seconds>> otherwise
NoTTL == <<>>

\* DataEncryptor.encrypt returns the record {data, iv, tag}: data is the hex
\* text of the JSON text of the value (twice its length), iv and tag are 32
\* hex digits each. As a string is represented by its length, the record is
\* represented by the length of its own JSON text, 2 * (n + 2) + 92, which no
\* plaintext of the model reaches. decrypt gives back the value.
CipherOverhead == 96

encrypt(v) == 2 * v + CipherOverhead

decrypt(c) == (c - CipherOverhead) \div 2

\* config.sensitivePatterns of the instance that encrypts: ['a']
sensitivePatterns == {"a"}

\* keyLower.includes(pattern); no default pattern occurs in a key or in a
\* value of the model
Includes(k, pattern) == pattern = "a" /\ k \in {"a"} \cup VersionedKeys

\* Lines 184-189 of set: the value the entry holds, and its encrypted flag
shouldEncrypt(k) ==
  encryptionEnabled /\ \E pattern \in sensitivePatterns : Includes(k, pattern)

EncryptedValue(k, v) == IF shouldEncrypt(k) THEN encrypt(v) ELSE v

\* Lines 355-369 of get: the value a hit on the entry returns
Decrypted(entry) ==
  IF entry.encrypted /\ encryptionEnabled
    THEN decrypt(entry.value)
    ELSE entry.value

NewEntry(k, v, ttl, t) ==
  [value |-> EncryptedValue(k, v), created |-> t, lastAccessed |-> t,
   ttl |-> IF ttl = NoTTL THEN DefaultTTL ELSE ttl[1],
   size |-> approximateMemoryUsage(k, EncryptedValue(k, v)),
   encrypted |-> shouldEncrypt(k)]

\* The entry loadDataWithMutex builds (lines 1517-1525): never encrypted
LoadedEntry(k, v, t) ==
  [value |-> v, created |-> t, lastAccessed |-> t, ttl |-> DefaultTTL,
   size |-> approximateMemoryUsage(k, v), encrypted |-> FALSE]

\* this.stats.memoryUsage -= oldEntry.size, when the key is cached
Released(E, k) ==
  IF E.cache[k] # NoEntry
    THEN [E EXCEPT !.stats.memoryUsage = @ - E.cache[k].size]
    ELSE E

\* effectiveMemoryIncrease
SizeIncrease(E, k, size) ==
  IF E.cache[k] # NoEntry THEN size - E.cache[k].size ELSE size

\* A faulty variant of Store: an update moves the key to the head but keeps
\* the old entry.
StoreKeepsOld(E, k, entry, isUpdate) ==
  [WithTotal(moveToHead(IF isUpdate
                          THEN E
                          ELSE [addToLRUChain(E, k) EXCEPT !.cache[k] = entry],
                        k))
     EXCEPT !.stats.memoryUsage = @ + entry.size]

\* The insertion that ends set (lines 251-258) and loadDataWithMutex (lines
\* 1532-1536).
Store(E, k, entry, isUpdate) ==
  [WithTotal(moveToHead([(IF isUpdate THEN E ELSE addToLRUChain(E, k))
                           EXCEPT !.cache[k] = entry], k))
     EXCEPT !.stats.memoryUsage = @ + entry.size]

\* The insertion happens unless the eviction threw.
Stored(enf, k, entry, isUpdate) ==
  [eng |-> IF enf.threw THEN enf.eng ELSE Store(enf.eng, k, entry, isUpdate),
   threw |-> enf.threw,
   evicted |-> enf.evicted]

\* Body of set (lines 222-259): the engine afterwards, whether it threw, and
\* the keys it evicted.
SetBody(E, k, v, ttl, t) ==
  Stored(Enforce(Released(E, k),
                 SizeIncrease(E, k, approximateMemoryUsage(k, v)),
                 E.cache[k] # NoEntry),
         k, NewEntry(k, v, ttl, t), E.cache[k] # NoEntry)

\* ------------------------------------------------------------------ batches
\* An item of setMany is [key, value]; a batch is a sequence of items.
\* The batches issued are the pairs of items on distinct keys, listed in
\* alphabetical order.
KeyIndex(k) == CHOOSE i \in 1..3 : <<"a", "b", "c">>[i] = k
Items == [key : PlainKeys, value : Values]
Batches == {b \in [1..2 -> Items] : KeyIndex(b[1].key) < KeyIndex(b[2].key)}
KeyLists == {<<>>, <<"a">>}

ItemSize(it) == approximateMemoryUsage(it.key, EncryptedValue(it.key, it.value))

RECURSIVE SumSizes(_)
SumSizes(items) ==
  IF items = <<>> THEN 0 ELSE ItemSize(Head(items)) + SumSizes(Tail(items))

\* The fitting loop of setMany (lines 1097-1110), from the last item to the
\* first: the indices of the items that stay in the work list.
RECURSIVE KeptFrom(_, _, _, _)
KeptFrom(items, i, usedMemory, availableMemory) ==
  IF i = 0 THEN {}
  ELSE IF usedMemory + ItemSize(items[i]) > availableMemory
    THEN KeptFrom(items, i - 1, usedMemory, availableMemory)
    ELSE {i} \cup KeptFrom(items, i - 1, usedMemory + ItemSize(items[i]),
                           availableMemory)

\* One round of the insertion loop of setMany (lines 1117-1128).
InsertItem(E, k, entry) ==
  [moveToHead([(IF E.cache[k] # NoEntry THEN Released(E, k)
                                        ELSE addToLRUChain(E, k))
                 EXCEPT !.cache[k] = entry], k)
     EXCEPT !.stats.memoryUsage = @ + entry.size]

\* The insertion loop of setMany (lines 1115-1136) over the kept items.
RECURSIVE InsertAll(_, _, _, _, _)
InsertAll(E, items, kept, i, t) ==
  IF i > Len(items) THEN E
  ELSE IF i \notin kept THEN InsertAll(E, items, kept, i + 1, t)
  ELSE InsertAll(InsertItem(E, items[i].key,
                            NewEntry(items[i].key, items[i].value, NoTTL, t)),
                 items, kept, i + 1, t)

\* The memory check of setMany (lines 1092-1094).
EnforceBatch(E, totalMemoryNeeded) ==
  IF E.stats.memoryUsage + totalMemoryNeeded > maxMemory
    THEN enforceMemoryLimitOptimized(E, totalMemoryNeeded)
    ELSE NoEviction(E)

\* The items that stay in the work list: all of them unless the eviction
\* threw.
Fitting(enf, items) ==
  IF enf.threw
    THEN KeptFrom(items, Len(items), 0,
                  maxMemory - enf.eng.stats.memoryUsage)
    ELSE 1..Len(items)

Batch(enf, items, kept, t) ==
  [eng |-> WithTotal(InsertAll(enf.eng, items, kept, 1, t)),
   kept |-> kept,
   evicted |-> enf.evicted]

SetManyWith(enf, items, t) == Batch(enf, items, Fitting(enf, items), t)

\* Body of setMany (lines 1091-1139).
SetManyBody(E, items, t) ==
  SetManyWith(EnforceBatch(E, SumSizes(items)), items, t)

\* Body of loadDataWithMutex after the loader returned value v (lines
\* 1516-1539); a throw of enforceMemoryLimitOptimized lands in the catch of
\* line 1540.
LoadInsert(E, k, v, t) ==
  Stored(Enforce(E, approximateMemoryUsage(k, v), FALSE),
         k, LoadedEntry(k, v, t), FALSE)

\* A faulty variant of cacheNullValue: the expiry is the TTL alone, not
\* Date.now() plus the TTL.
cacheNullValueNoClock(nvc, k, ttlSeconds, t) ==
  [j \in Keys |-> IF j = k
                    THEN (IF t >= ttlSeconds * 1000 THEN 0
                                                    ELSE ttlSeconds * 1000)
                    ELSE (IF nvc[j] # 0 /\ t >= nvc[j] THEN 0 ELSE nvc[j])]

\* cacheNullValue followed by cleanupNullValueCache (lines 1551-1569).
cacheNullValue(nvc, k, ttlSeconds, t) ==
  LET set == [nvc EXCEPT ![k] = t + ttlSeconds * 1000]
  IN [j \in Keys |-> IF set[j] # 0 /\ t >= set[j] THEN 0 ELSE set[j]]

\* ------------------------------------------------------------------- mutex
\* lock(): taken at once when free, otherwise the caller joins the queue.
\* A faulty variant of lock: a caller that has to wait is put at the head of
\* the queue.
LockAtHead(p, o) ==
  /\ op' = [op EXCEPT ![p] = o]
  /\ IF ~locked
       THEN /\ locked' = TRUE
            /\ waitingQueue' = waitingQueue
            /\ pc' = [pc EXCEPT ![p] = "run"]
       ELSE /\ locked' = locked
            /\ waitingQueue' = <<p>> \o waitingQueue
            /\ pc' = [pc EXCEPT ![p] = "wait"]

Lock(p, o) ==
  /\ op' = [op EXCEPT ![p] = o]
  /\ IF ~locked
       THEN /\ locked' = TRUE
            /\ waitingQueue' = waitingQueue
            /\ pc' = [pc EXCEPT ![p] = "run"]
       ELSE /\ locked' = locked
            /\ waitingQueue' = Append(waitingQueue, p)
            /\ pc' = [pc EXCEPT ![p] = "wait"]

\* unlock(): the lock passes to the first waiter, or is freed.
\* A faulty variant of unlock: the mutex is marked free even when it is
\* handed to a waiter.
UnlockMarksFree ==
  IF waitingQueue # <<>>
    THEN waitingQueue' = Tail(waitingQueue) /\ locked' = FALSE
    ELSE waitingQueue' = waitingQueue /\ locked' = FALSE

Unlock ==
  IF waitingQueue # <<>>
    THEN waitingQueue' = Tail(waitingQueue) /\ locked' = locked
    ELSE waitingQueue' = waitingQueue /\ locked' = FALSE

\* The positions after unlock(): the first waiter resumes in its body.
Resumed(pcf) ==
  IF waitingQueue # <<>> THEN [pcf EXCEPT ![Head(waitingQueue)] = "run"]
                         ELSE pcf

\* A body that calls another public operation of the same engine: the nested
\* runExclusive finds the mutex locked and joins the queue, and the body
\* awaits it.
NestedLock(p) ==
  /\ waitingQueue' = Append(waitingQueue, p)
  /\ locked' = locked
  /\ pc' = [pc EXCEPT ![p] = "selfwait"]

SetEngine(E) ==
  /\ cache' = E.cache
  /\ accessOrder' = E.accessOrder
  /\ lruHead' = E.lruHead
  /\ lruTail' = E.lruTail
  /\ stats' = E.stats

\* The return of p's operation with outcome r, as the caller sees it.
Return(p, r) == [proc |-> p, op |-> op[p], out |-> r]
NoReturn == [proc |-> NoProc]

\* p's operation completes with outcome r and its body releases the mutex.
Complete(p, r) ==
  /\ ret' = Return(p, r)
  /\ op' = [op EXCEPT ![p] = NoOp]
  /\ pc' = Resumed([pc EXCEPT ![p] = "idle"])
  /\ Unlock

\* ----------------------------------------------------------------- history
NotSet == [set |-> FALSE, value |-> 0, at |-> 0, evicted |-> FALSE]
WasSet(v, t) == [set |-> TRUE, value |-> v, at |-> t, evicted |-> FALSE]
OtherOps == [only |-> FALSE, items |-> <<>>]

\* The keys ks were evicted by enforceMemoryLimitOptimized.
Evicted(ls, ks) ==
  [k \in Keys |-> IF k \in ks /\ ls[k].set THEN [ls[k] EXCEPT !.evicted = TRUE]
                                              ELSE ls[k]]

\* The keys ks were written, deleted or cleared by something else than set.
Forgotten(ls, ks) == [k \in Keys |-> IF k \in ks THEN NotSet ELSE ls[k]]

SetKeys(so) == {so.items[i].key : i \in 1..Len(so.items)}

\* ----------------------------------------------------------------- actions
\* The state the constructor leaves, whatever config.accessControl and
\* config.encryptionEnabled are.
Constructed ==
  /\ cache = [k \in Keys |-> NoEntry]
  /\ accessOrder = [k \in Keys |-> NoNode]
  /\ lruHead = None
  /\ lruTail = None
  /\ stats = resetStats
  /\ locked = FALSE
  /\ waitingQueue = <<>>
  /\ now = 0
  /\ pc = [p \in Procs |-> "idle"]
  /\ op = [p \in Procs |-> NoOp]
  /\ ret = NoReturn
  /\ opCount = 0
  /\ introduced = 0
  /\ pendingRequests = [k \in Keys |-> NoProc]
  /\ promise = [p \in Procs |-> NoResult]
  /\ nullValueCache = [k \in Keys |-> 0]
  /\ loaderCalls = [k \in Keys |-> 0]
  /\ setOrder = [only |-> TRUE, items |-> <<>>]
  /\ lastSet = [k \in Keys |-> NotSet]
  /\ loaderOut = [p \in Procs |-> NoResult]
  /\ nullAt = [k \in Keys |-> -1]
  /\ currentPressureLevel = "LOW"
  /\ lastGCTime = 0
  /\ lastFullGC = 0
  /\ lastMemoryCheck = 0
  /\ versionAwareMode = FALSE
  /\ fileWatchers = {}
  /\ dependencyGraph = [f \in Paths |-> {}]
  /\ mtime = [f \in Paths |-> Missing]
  /\ setups = {}
  /\ intervals = TRUE
  /\ sharedCounter = 0
  /\ issued = <<>>
  /\ granted = <<>>

Init ==
  /\ Constructed
  /\ accessController = NoAccessController
  /\ encryptionEnabled = FALSE
  /\ memoryPressureLevels = DefaultLevels
  /\ tickInstants = TickInstants

\* A step that reads Date.now() reads an instant not earlier than the last
\* one read.
Clock(t) == t \in Instants /\ t >= now /\ now' = t

\* Keys are interchangeable (same length, never compared), and so are idle
\* callers: callers name new keys in the order a, b, c, and a caller issues an
\* operation only when the callers before it are busy.
Max(x, y) == IF x >= y THEN x ELSE y

RECURSIVE Named(_, _)
Named(n, ks) ==
  IF ks = <<>> THEN n
  ELSE IF KeyIndex(Head(ks)) > n + 1 THEN -1
  ELSE Named(Max(n, KeyIndex(Head(ks))), Tail(ks))

\* The continuation of lock() is a microtask: a body that owns the mutex
\* starts before any other caller moves.
BodyPending == \E q \in Procs : pc[q] = "run"

\* So is the continuation of a settled load promise: it runs before a caller
\* issues a new operation (a call issued while the loader runs is queued and
\* its body still runs before that continuation).
Settling == \E q \in Procs : pc[q] \in {"afterLoad", "afterPending"}

\* Caller p can issue an operation.
CanCall(p) ==
  /\ pc[p] = "idle"
  /\ ~BodyPending
  /\ ~Settling
  /\ \A q \in Procs : q < p => pc[q] # "idle"
  /\ opCount < MaxOps

\* A caller issues a public operation on the keys ks: runExclusive calls
\* lock().
Call(p, o, ks) ==
  /\ opCount' = opCount + 1
  /\ Named(introduced, ks) >= 0
  /\ introduced' = Named(introduced, ks)
  /\ Lock(p, o)
  /\ ret' = NoReturn
  /\ setOrder' = IF o.type = "set" THEN setOrder ELSE OtherOps
  /\ UNCHANGED <<engine, now, flight, lastSet, loaderOut, nullAt>>
  /\ UNCHANGED <<maintenance, versioning, instance, exclusive>>

\* ---------------------------------------------------------- access control
AllOperations == {"get", "set", "delete", "clear"}

\* new AccessController(config): the operations allowed, the restricted keys
\* and the restricted patterns.
AccessController(allowedOperations, restrictedKeys, restrictedPatterns) ==
  [enabled |-> TRUE, allowedOperations |-> allowedOperations,
   restrictedKeys |-> restrictedKeys, keyPatterns |-> restrictedPatterns]

\* new RegExp(pattern, 'i').test(key)
PatternTest(pattern, k) ==
  CASE pattern = "^[bc]$" -> k \in {"b", "c"}
    [] OTHER -> FALSE

isOperationAllowed(operation) ==
  operation \in accessController.allowedOperations

isKeyRestricted(k) ==
  \/ k \in accessController.restrictedKeys
  \/ \E pattern \in accessController.keyPatterns : PatternTest(pattern, k)

\* validateAccess(operation, key) throws.
Denied(o) ==
  /\ accessController.enabled
  /\ \/ ~isOperationAllowed(o.type)
     \/ "key" \in DOMAIN o /\ isKeyRestricted(o.key)

\* The ttl argument of set, undefined when it is left out.
TTLOf(o) == IF "ttl" \in DOMAIN o THEN <<o.ttl>> ELSE NoTTL

CallSet(p) ==
  /\ CanCall(p)
  /\ \E k \in PlainKeys, v \in Values :
    Call(p, [type |-> "set", key |-> k, value |-> v], <<k>>)

CallGet(p) ==
  /\ CanCall(p)
  /\ \E k \in PlainKeys :
    Call(p, [type |-> "get", key |-> k, protected |-> FALSE], <<k>>)

CallDelete(p) ==
  /\ CanCall(p)
  /\ \E k \in PlainKeys : Call(p, [type |-> "delete", key |-> k], <<k>>)

CallClear(p) == CanCall(p) /\ Call(p, [type |-> "clear"], <<>>)

\* set(key, value, ttl) with an explicit ttl, in seconds
ExplicitTTLs == {-1, 2}

CallSetWithTTL(p) ==
  /\ CanCall(p)
  /\ \E k \in PlainKeys, v \in Values, ttl \in ExplicitTTLs :
    Call(p, [type |-> "set", key |-> k, value |-> v, ttl |-> ttl], <<k>>)

CallSetMany(p) ==
  /\ CanCall(p)
  /\ \E b \in Batches :
    Call(p, [type |-> "setMany", items |-> b], <<b[1].key, b[2].key>>)

CallGetMany(p) ==
  /\ CanCall(p)
  /\ \E ks \in KeyLists : Call(p, [type |-> "getMany", keys |-> ks], ks)

CallDeleteMany(p) ==
  /\ CanCall(p)
  /\ \E ks \in KeyLists : Call(p, [type |-> "deleteMany", keys |-> ks], ks)

\* getWithProtection starts with await this.get(key).
CallGetWithProtection(p) ==
  /\ CanCall(p)
  /\ \E k \in PlainKeys :
    Call(p, [type |-> "get", key |-> k, protected |-> TRUE,
             issued |-> now, late |-> nullAt[k] >= 0], <<k>>)

RunSet(p) ==
  /\ pc[p] = "run"
  /\ op[p].type = "set"
  /\ ~Denied(op[p])
  /\ \E t \in Instants :
       \E k \in {op[p].key} :
       \E r \in {SetBody(Eng, k, op[p].value, TTLOf(op[p]), t)} :
          /\ Clock(t)
          /\ SetEngine(r.eng)
          /\ Complete(p, IF r.threw THEN Err("MEMORY_LIMIT_EXCEEDED") ELSE Ok)
          /\ lastSet' = [Evicted(lastSet, r.evicted) EXCEPT ![k] =
                           IF r.threw THEN NotSet ELSE WasSet(op[p].value, t)]
          /\ setOrder' =
               IF setOrder.only /\ ~r.threw /\ k \notin SetKeys(setOrder)
                 THEN [setOrder EXCEPT !.items =
                         Append(@, [key |-> k, value |-> op[p].value])]
                 ELSE OtherOps
  /\ UNCHANGED <<opCount, introduced, flight, loaderOut, nullAt>>
  /\ UNCHANGED <<maintenance, versioning, instance, exclusive>>

\* A faulty variant of LiveEntry: the double check of loadDataWithMutex never
\* finds the entry.
LiveEntryUnseen(k, t) == FALSE

LiveEntry(k, t) == IF cache[k] = NoEntry THEN FALSE ELSE ~isExpired(cache[k], t)
DeadEntry(k, t) == IF cache[k] = NoEntry THEN FALSE ELSE isExpired(cache[k], t)

\* The hit path shared by get (lines 344-347) and by the double check of
\* loadDataWithMutex (lines 1493-1496).
Touch(E, k, t) ==
  LET E1 == [E EXCEPT !.cache[k].lastAccessed = t]
      E2 == moveToHead(E1, k)
  IN updateHitRate([E2 EXCEPT !.stats.hits = @ + 1])

\* get (lines 306-369) on a missing key or on a live entry.
RunGet(p) ==
  /\ pc[p] = "run"
  /\ op[p].type = "get"
  /\ ~Denied(op[p])
  /\ \E t \in Instants :
       LET k == op[p].key
           r == IF cache[k] = NoEntry THEN Absent ELSE Val(Decrypted(cache[k]))
           E == IF cache[k] = NoEntry
                  THEN Missed(Eng)
                  ELSE Touch(Eng, k, t)
       IN /\ Clock(t)
          /\ ~DeadEntry(k, t)
          /\ SetEngine(E)
          /\ IF op[p].protected
               THEN /\ op' = [op EXCEPT ![p] =
                                  [type |-> "afterGet", key |-> k, got |-> r,
                                   issued |-> op[p].issued,
                                   late |-> op[p].late]]
                    /\ pc' = Resumed([pc EXCEPT ![p] = "afterGet"])
                    /\ ret' = NoReturn
                    /\ Unlock
               ELSE Complete(p, r)
  /\ UNCHANGED <<opCount, introduced, flight, ghost>>
  /\ UNCHANGED <<maintenance, versioning, instance, exclusive>>

\* get on an entry whose TTL has elapsed: await this.delete(finalKey) (line
\* 316) is a nested runExclusive on the mutex the body holds.
RunGetExpired(p) ==
  /\ pc[p] = "run"
  /\ op[p].type = "get"
  /\ ~Denied(op[p])
  /\ \E t \in Instants : Clock(t) /\ DeadEntry(op[p].key, t)
  /\ NestedLock(p)
  /\ ret' = NoReturn
  /\ UNCHANGED <<engine, op, opCount, introduced, flight, ghost>>
  /\ UNCHANGED <<maintenance, versioning, instance, exclusive>>

\* validateAccess throws at the start of the body. The catch of set (lines
\* 263-273) wraps the Error in a CacheError with code UNKNOWN_ERROR; get,
\* delete and clear let it pass as it is, an Error without a code.
RunDenied(p) ==
  /\ pc[p] = "run"
  /\ op[p].type \in AllOperations
  /\ Denied(op[p])
  /\ Complete(p, Err(IF op[p].type = "set" THEN "UNKNOWN_ERROR" ELSE None))
  /\ UNCHANGED <<engine, now, opCount, introduced, flight, ghost,
                 maintenance, versioning, instance, exclusive>>

RunDelete(p) ==
  /\ pc[p] = "run"
  /\ op[p].type = "delete"
  /\ ~Denied(op[p])
  /\ LET k == op[p].key
     IN /\ SetEngine(deleteInternal(Eng, k))
        /\ Complete(p, Bool(cache[k] # NoEntry))
        /\ lastSet' = Forgotten(lastSet, {k})
  /\ UNCHANGED <<now, opCount, introduced, flight, setOrder, loaderOut, nullAt>>
  /\ UNCHANGED <<maintenance, versioning, instance, exclusive>>

RunClear(p) ==
  /\ pc[p] = "run"
  /\ op[p].type = "clear"
  /\ ~Denied(op[p])
  /\ cache' = [k \in Keys |-> NoEntry]
  /\ accessOrder' = [k \in Keys |-> NoNode]
  /\ lruHead' = None
  /\ lruTail' = None
  /\ stats' = resetStats
  /\ Complete(p, Ok)
  /\ lastSet' = Forgotten(lastSet, Keys)
  /\ UNCHANGED <<now, opCount, introduced, flight, setOrder, loaderOut, nullAt>>
  /\ UNCHANGED <<maintenance, versioning, instance, exclusive>>

\* The preparation loop of setMany (lines 1043-1088): the positions of the
\* items validateAccess('set', item.key) lets pass, and those items.
AllowedItems(items) ==
  SelectSeq([i \in 1..Len(items) |-> i],
            LAMBDA i : ~Denied([type |-> "set", key |-> items[i].key]))

processedItems(items) ==
  [n \in 1..Len(AllowedItems(items)) |-> items[AllowedItems(items)[n]]]

RunSetMany(p) ==
  /\ pc[p] = "run"
  /\ op[p].type = "setMany"
  /\ \E t \in Instants :
       \E allowed \in {AllowedItems(op[p].items)} :
       \E items \in {processedItems(op[p].items)} :
       \E r \in {SetManyBody(Eng, items, t)} :
       \E done \in {{allowed[n] : n \in r.kept}} :
          /\ Clock(t)
          /\ SetEngine(r.eng)
          /\ Complete(p, [kind |-> "batch",
                          success |-> done,
                          failed |-> (1..Len(op[p].items)) \ done])
          /\ lastSet' = Forgotten(Evicted(lastSet, r.evicted),
                                  {items[n].key : n \in 1..Len(items)})
  /\ UNCHANGED <<opCount, introduced, flight, setOrder, loaderOut, nullAt>>
  /\ UNCHANGED <<maintenance, versioning, instance, exclusive>>

\* getMany and deleteMany (lines 1158-1208): an empty key list returns at
\* once; otherwise the loop calls this.get / this.delete, a nested
\* runExclusive on the mutex the body holds.
RunManyEmpty(p) ==
  /\ pc[p] = "run"
  /\ op[p].type \in {"getMany", "deleteMany"}
  /\ op[p].keys = <<>>
  /\ Complete(p, [kind |-> "batch", success |-> {}, failed |-> {}])
  /\ UNCHANGED <<engine, now, opCount, introduced, flight, ghost>>
  /\ UNCHANGED <<maintenance, versioning, instance, exclusive>>

RunManyNested(p) ==
  /\ pc[p] = "run"
  /\ op[p].type \in {"getMany", "deleteMany"}
  /\ op[p].keys # <<>>
  /\ NestedLock(p)
  /\ ret' = NoReturn
  /\ UNCHANGED <<engine, now, op, opCount, introduced, flight, ghost>>
  /\ UNCHANGED <<maintenance, versioning, instance, exclusive>>

\* ------------------------------------------------------ getWithProtection
\* What a loader can do: return a value (the long string), return null, or
\* throw.
LoaderValues == {v \in Values : \A w \in Values : w <= v}
LoaderOutcomes ==
  {Val(v) : v \in LoaderValues} \cup {Absent, Err("LOADER_ERROR")}

Awaits(q, i) == pc[q] = "awaitPending" /\ op[q].on = i

\* The load promise of caller i settles with outcome r: every caller awaiting
\* it resumes with r.
Settled(pcf, i) ==
  [q \in Procs |-> IF Awaits(q, i) THEN "afterPending" ELSE pcf[q]]

Delivered(i, r) ==
  [q \in Procs |-> IF Awaits(q, i)
                     THEN [type |-> "afterPending", key |-> op[q].key, got |-> r]
                     ELSE op[q]]

\* The return of getWithProtection; via tells which return statement made
\* it: "hit", "negative", "pending" or "load".
GwpReturn(p, r, via) ==
  [proc |-> p, op |-> [type |-> "getWithProtection", key |-> op[p].key],
   out |-> r, via |-> via]

\* getWithProtection after await this.get (lines 1440-1468), one synchronous
\* run: hit, negative cache, coalescing on a pending load, or a new load
\* (whose runExclusive calls lock() before the promise is registered).
AfterGet(p) ==
  /\ pc[p] = "afterGet"
  /\ ~BodyPending
  /\ \E t \in Instants :
       LET k == op[p].key
           i == pendingRequests[k]
       IN /\ Clock(t)
          /\ IF op[p].got.kind = "value" THEN
               /\ pc' = [pc EXCEPT ![p] = "idle"]
               /\ op' = [op EXCEPT ![p] = NoOp]
               /\ ret' = GwpReturn(p, op[p].got, "hit")
               /\ UNCHANGED <<mutex, pendingRequests, promise>>
             ELSE IF nullValueCache[k] # 0 /\ t < nullValueCache[k] THEN
               /\ pc' = [pc EXCEPT ![p] = "idle"]
               /\ op' = [op EXCEPT ![p] = NoOp]
               /\ ret' = GwpReturn(p, Absent, "negative")
               /\ UNCHANGED <<mutex, pendingRequests, promise>>
             ELSE IF i # NoProc THEN
               /\ IF promise[i] = Pending
                    THEN /\ pc' = [pc EXCEPT ![p] = "awaitPending"]
                         /\ op' = [op EXCEPT ![p] =
                                     [type |-> "await", key |-> k, on |-> i]]
                    ELSE /\ pc' = [pc EXCEPT ![p] = "afterPending"]
                         /\ op' = [op EXCEPT ![p] =
                                     [type |-> "afterPending", key |-> k,
                                      got |-> promise[i]]]
               /\ ret' = NoReturn
               /\ UNCHANGED <<mutex, pendingRequests, promise>>
             ELSE
               /\ Lock(p, [type |-> "load", key |-> k,
                            issued |-> op[p].issued, late |-> op[p].late,
                            checked |-> t])
               /\ pendingRequests' = [pendingRequests EXCEPT ![k] = p]
               /\ promise' = [promise EXCEPT ![p] = Pending]
               /\ ret' = NoReturn
  /\ UNCHANGED <<engine, opCount, introduced, nullValueCache, loaderCalls,
                 ghost>>
  /\ UNCHANGED <<maintenance, versioning, instance, exclusive>>

\* loadDataWithMutex, double check (lines 1490-1505): a live entry is returned
\* without calling the loader.
RunLoadHit(p) ==
  /\ pc[p] = "run"
  /\ op[p].type = "load"
  /\ \E t \in Instants :
       LET k == op[p].key
       IN /\ Clock(t)
          /\ LiveEntry(k, t)
          /\ SetEngine(Touch(Eng, k, t))
          /\ promise' = [promise EXCEPT ![p] = Val(Decrypted(cache[k]))]
          /\ op' = Delivered(p, Val(Decrypted(cache[k])))
          /\ pc' = Resumed(Settled([pc EXCEPT ![p] = "afterLoad"], p))
  /\ Unlock
  /\ ret' = NoReturn
  /\ UNCHANGED <<opCount, introduced, pendingRequests, nullValueCache,
                 loaderCalls, ghost>>
  /\ UNCHANGED <<maintenance, versioning, instance, exclusive>>

\* loadDataWithMutex calls the loader (line 1508) and awaits it, holding the
\* mutex.
RunLoadMiss(p) ==
  /\ pc[p] = "run"
  /\ op[p].type = "load"
  /\ \E t \in Instants : Clock(t) /\ ~LiveEntry(op[p].key, t)
  /\ loaderCalls' = [loaderCalls EXCEPT ![op[p].key] = @ + 1]
  /\ pc' = [pc EXCEPT ![p] = "loading"]
  /\ ret' = NoReturn
  /\ UNCHANGED <<engine, mutex, op, opCount, introduced, pendingRequests,
                 promise, nullValueCache, ghost>>
  /\ UNCHANGED <<maintenance, versioning, instance, exclusive>>

\* The outcome of loadDataWithMutex when the loader settles with out (lines
\* 1510-1544): the engine, the negative cache and what the promise settles to.
Loaded(ins, nvc, k, out, t) ==
  IF ins.threw
    THEN [eng |-> ins.eng,
          nvc |-> cacheNullValue(nvc, k, LoaderErrorTTL, t),
          out |-> Err("MEMORY_LIMIT_EXCEEDED"),
          evicted |-> ins.evicted]
    ELSE [eng |-> ins.eng, nvc |-> nvc, out |-> out, evicted |-> ins.evicted]

\* A faulty variant of LoadOutcome: a loader that throws leaves no record in
\* the null-value cache.
LoadOutcomeNoRecord(E, nvc, k, out, t) ==
  IF out.kind = "value"
    THEN Loaded(LoadInsert(E, k, out.v, t), nvc, k, out, t)
    ELSE IF out = Absent
      THEN [eng |-> E, nvc |-> cacheNullValue(nvc, k, NullValueTTL, t),
            out |-> Absent, evicted |-> {}]
      ELSE [eng |-> E, nvc |-> nvc, out |-> out, evicted |-> {}]

LoadOutcome(E, nvc, k, out, t) ==
  IF out.kind = "value"
    THEN Loaded(LoadInsert(E, k, out.v, t), nvc, k, out, t)
    ELSE IF out = Absent
      THEN [eng |-> E, nvc |-> cacheNullValue(nvc, k, NullValueTTL, t),
            out |-> Absent, evicted |-> {}]
      ELSE [eng |-> E, nvc |-> cacheNullValue(nvc, k, LoaderErrorTTL, t),
            out |-> out, evicted |-> {}]

\* The loader settles and runExclusive releases the mutex.
LoaderReturns(p) ==
  /\ pc[p] = "loading"
  /\ \E out \in LoaderOutcomes, t \in Instants :
       \E r \in {LoadOutcome(Eng, nullValueCache, op[p].key, out, t)} :
          /\ Clock(t)
          /\ SetEngine(r.eng)
          /\ nullValueCache' = r.nvc
          /\ promise' = [promise EXCEPT ![p] = r.out]
          /\ op' = Delivered(p, r.out)
          /\ pc' = Resumed(Settled([pc EXCEPT ![p] = "afterLoad"], p))
          /\ loaderOut' = [loaderOut EXCEPT ![p] = out]
          /\ nullAt' = IF out = Absent
                         THEN [nullAt EXCEPT ![op[p].key] = t] ELSE nullAt
          /\ lastSet' = IF out.kind = "value"
                          THEN Forgotten(Evicted(lastSet, r.evicted),
                                         {op[p].key})
                          ELSE lastSet
  /\ Unlock
  /\ ret' = NoReturn
  /\ UNCHANGED <<opCount, introduced, pendingRequests, loaderCalls, setOrder>>
  /\ UNCHANGED <<maintenance, versioning, instance, exclusive>>

\* The initiating caller resumes from await dataLoadPromise (lines 1471-1477).
AfterLoad(p) ==
  /\ pc[p] = "afterLoad"
  /\ ~BodyPending
  /\ pendingRequests' = [pendingRequests EXCEPT ![op[p].key] = NoProc]
  /\ ret' = GwpReturn(p, promise[p], "load")
  /\ promise' = [promise EXCEPT ![p] = NoResult]
  /\ loaderOut' = [loaderOut EXCEPT ![p] = NoResult]
  /\ pc' = [pc EXCEPT ![p] = "idle"]
  /\ op' = [op EXCEPT ![p] = NoOp]
  /\ UNCHANGED <<engine, mutex, now, opCount, introduced, nullValueCache,
                 loaderCalls, setOrder, lastSet, nullAt>>
  /\ UNCHANGED <<maintenance, versioning, instance, exclusive>>

\* A coalesced caller resumes from await pendingRequest (lines 1457-1463).
AfterPending(p) ==
  /\ pc[p] = "afterPending"
  /\ ~BodyPending
  /\ pendingRequests' =
       IF op[p].got.kind = "error"
         THEN [pendingRequests EXCEPT ![op[p].key] = NoProc]
         ELSE pendingRequests
  /\ ret' = GwpReturn(p, op[p].got, "pending")
  /\ pc' = [pc EXCEPT ![p] = "idle"]
  /\ op' = [op EXCEPT ![p] = NoOp]
  /\ UNCHANGED <<engine, mutex, now, opCount, introduced, promise,
                 nullValueCache, loaderCalls, ghost>>
  /\ UNCHANGED <<maintenance, versioning, instance, exclusive>>

\* ------------------------------------------------------------ maintenance
TickClock(t) == t \in tickInstants /\ t >= now /\ now' = t

\* What a timer callback or forceGC leaves in ret: no caller gets a return.
Ticked(kind, recalculated) ==
  [proc |-> NoProc, tick |-> kind, recalculated |-> recalculated]

\* A Map iterates its keys in insertion order, which the model does not keep:
\* the orders in which the keys S can be listed.
Orders(S) ==
  {o \in [1..Cardinality(S) -> S] :
     \A i \in 1..Cardinality(S) : \A j \in 1..Cardinality(S) :
       o[i] = o[j] => i = j}

\* The keys of S, in the order ord lists them.
InOrder(ord, S) == SelectSeq(ord, LAMBDA k : k \in S)

Abs(x) == IF x < 0 THEN -x ELSE x

\* The sum of entry.size over the map.
RECURSIVE SizeOf(_, _)
SizeOf(c, ks) ==
  IF ks = <<>> THEN 0 ELSE c[Head(ks)].size + SizeOf(c, Tail(ks))

AnyOrder(S) == CHOOSE o \in Orders(S) : TRUE
TotalSize(c) == SizeOf(c, AnyOrder(CacheKeys(c)))

recalculateMemoryUsage(E) ==
  IF Abs(TotalSize(E.cache) - E.stats.memoryUsage) > RecalibrationTolerance
    THEN [E EXCEPT !.stats.memoryUsage = TotalSize(E.cache)]
    ELSE E

\* updateStats: the recalibration is due when the last one is more than
\* memoryCheckInterval old.
CheckDue(t) == t - lastMemoryCheck > MemoryCheckInterval

updateStats(E, due) ==
  IF due THEN recalculateMemoryUsage(updateHitRate(E)) ELSE updateHitRate(E)

\* updateMemoryPressure: memoryUsage / maxMemory against 0.95, 0.85 and 0.7.
PressureLevel(E) ==
  IF E.stats.memoryUsage * 100 >= memoryPressureLevels.CRITICAL * maxMemory
    THEN "CRITICAL"
  ELSE IF E.stats.memoryUsage * 100 >= memoryPressureLevels.HIGH * maxMemory
    THEN "HIGH"
  ELSE IF E.stats.memoryUsage * 100 >= memoryPressureLevels.MEDIUM * maxMemory
    THEN "MEDIUM"
  ELSE "LOW"

\* A faulty variant: a cycle runs as soon as the cool-down is reached.
shouldPerformGCAtCoolDown(level, timeSinceLastGC) ==
  CASE level = "CRITICAL" -> timeSinceLastGC >= 5000
    [] level = "HIGH" -> timeSinceLastGC >= 15000
    [] level = "MEDIUM" -> timeSinceLastGC >= 30000
    [] level = "LOW" -> timeSinceLastGC >= 120000

shouldPerformGC(level, timeSinceLastGC) ==
  CASE level = "CRITICAL" -> timeSinceLastGC > 5000
    [] level = "HIGH" -> timeSinceLastGC > 15000
    [] level = "MEDIUM" -> timeSinceLastGC > 30000
    [] level = "LOW" -> timeSinceLastGC > 120000

ExpiredKeys(E, t) ==
  {k \in Keys : IF E.cache[k] = NoEntry THEN FALSE
                                        ELSE isExpired(E.cache[k], t)}

cleanupExpiredEntries(E, ord, t) ==
  DeleteAll(E, InOrder(ord, ExpiredKeys(E, t)))

\* The loop of performSmartEviction and performAggressiveEviction: entries
\* are deleted until the bytes freed reach share/10 of the memory in use
\* when the loop started.
RECURSIVE EvictUntil(_, _, _, _, _)
EvictUntil(E, candidates, freedBytes, share, usage) ==
  IF candidates = <<>> \/ freedBytes * 10 >= usage * share THEN E
  ELSE EvictUntil(deleteInternal(E, Head(candidates)), Tail(candidates),
                  freedBytes + E.cache[Head(candidates)].size, share, usage)

\* performSmartEviction: the candidates are sorted by a weight computed in
\* floating point from the age, the access count and the size; the model
\* takes them in any order (byWeight).
performSmartEviction(E, byWeight) ==
  EvictUntil(E, InOrder(byWeight, CacheKeys(E.cache)), 0, 2,
             E.stats.memoryUsage)

\* The position in s of the first key for which no key of s has a larger
\* field f: the first element of a stable descending sort.
First(c, s, f) ==
  CHOOSE i \in 1..Len(s) :
    /\ \A j \in 1..Len(s) : c[s[j]][f] <= c[s[i]][f]
    /\ \A j \in 1..(i - 1) : c[s[j]][f] < c[s[i]][f]

Without(s, i) == SubSeq(s, 1, i - 1) \o SubSeq(s, i + 1, Len(s))

\* Array.prototype.sort, descending on field f (the sort is stable).
RECURSIVE Descending(_, _, _)
Descending(c, s, f) ==
  IF s = <<>> THEN <<>>
  ELSE <<s[First(c, s, f)]>> \o Descending(c, Without(s, First(c, s, f)), f)

performAggressiveEviction(E, ord) ==
  EvictUntil(E, Descending(E.cache, InOrder(ord, CacheKeys(E.cache)), "size"),
             0, 4, E.stats.memoryUsage)

SmartPhase(E, level, byWeight) ==
  IF level \in {"HIGH", "CRITICAL"} THEN performSmartEviction(E, byWeight)
                                    ELSE E

\* A faulty variant: the third phase also runs under HIGH pressure.
AggressivePhaseAtHigh(E, level, ord) ==
  IF level \in {"HIGH", "CRITICAL"} THEN performAggressiveEviction(E, ord)
                                    ELSE E

AggressivePhase(E, level, ord) ==
  IF level = "CRITICAL" THEN performAggressiveEviction(E, ord) ELSE E

\* executeSmartGC, on the map (cleanupAuxiliaryData is cleanupNullValueCache).
executeSmartGC(E, level, ord, byWeight, t) ==
  AggressivePhase(SmartPhase(cleanupExpiredEntries(E, ord, t), level,
                             byWeight),
                  level, ord)

cleanupNullValueCache(nvc, t) ==
  [k \in Keys |-> IF nvc[k] # 0 /\ t >= nvc[k] THEN 0 ELSE nvc[k]]

\* optimizeLRUChain: the list is rebuilt with addToLRUChain alone, which
\* links no node: the first key of the sort becomes head and tail.
Rebuilt(E, sorted) ==
  [E EXCEPT !.accessOrder =
              [k \in Keys |-> IF E.cache[k] = NoEntry
                                THEN NoNode
                                ELSE [prev |-> None, next |-> None]],
            !.lruHead = IF sorted = <<>> THEN None ELSE Head(sorted),
            !.lruTail = IF sorted = <<>> THEN None ELSE Head(sorted)]

optimizeLRUChain(E, ord) ==
  Rebuilt(E, Descending(E.cache, InOrder(ord, CacheKeys(E.cache)),
                        "lastAccessed"))

performFullGC(E, ord, t) ==
  optimizeLRUChain(recalculateMemoryUsage(cleanupExpiredEntries(E, ord, t)),
                   ord)

\* performIntelligentGC, on the map.
SmartPass(E, gc, level, ord, byWeight, t) ==
  IF gc THEN executeSmartGC(E, level, ord, byWeight, t) ELSE E

FullPass(E, full, ord, t) == IF full THEN performFullGC(E, ord, t) ELSE E

performIntelligentGC(E, gc, full, level, ord, byWeight, t) ==
  FullPass(SmartPass(E, gc, level, ord, byWeight, t), full, ord, t)

\* A timer callback or forceGC runs when no continuation is pending.
CanTick == ~BodyPending /\ ~Settling /\ opCount < MaxOps

\* The keys a step removed from the map.
Dropped(c) == {k \in Keys : cache[k] # NoEntry /\ c[k] = NoEntry}

\* statsUpdateInterval (lines 118-121): updateStats and updateMemoryPressure.
\* The statistics timer can fire once more after the last operation.
CanTickStats == ~BodyPending /\ ~Settling /\ opCount <= MaxOps

StatsTick ==
  /\ intervals
  /\ CanTickStats
  /\ \E t \in tickInstants :
       \E E \in {updateStats(Eng, CheckDue(t))} :
         /\ TickClock(t)
         /\ SetEngine(E)
         /\ lastMemoryCheck' = IF CheckDue(t) THEN t ELSE lastMemoryCheck
         /\ currentPressureLevel' = PressureLevel(E)
         /\ ret' = Ticked("stats", CheckDue(t))
  /\ opCount' = opCount + 1
  /\ UNCHANGED <<mutex, pc, op, introduced, flight, ghost, lastGCTime,
                 lastFullGC, versioning, instance, exclusive>>

\* The orders byWeight matters in: the weights are used under HIGH and
\* CRITICAL pressure only.
Weighings(level, ord) ==
  IF level \in {"HIGH", "CRITICAL"} THEN Orders(CacheKeys(cache)) ELSE {ord}

\* cleanupInterval (lines 114-117): evictStale() runs up to its first await,
\* the lock() of delete(first expired key), in activity p; then
\* performIntelligentGC() runs.
CleanupTick(p) ==
  /\ intervals
  /\ CanCall(p)
  /\ \E t \in tickInstants, ord \in Orders(CacheKeys(cache)) :
       \E byWeight \in Weighings(currentPressureLevel, ord) :
       \E gc \in {shouldPerformGC(currentPressureLevel, t - lastGCTime)} :
       \E full \in {t - lastFullGC > FullGCInterval} :
       \E E \in {performIntelligentGC(Eng, gc, full, currentPressureLevel,
                                      ord, byWeight, t)} :
         /\ TickClock(t)
         /\ IF ExpiredKeys(Eng, t) = {}
              THEN UNCHANGED <<mutex, pc, op>>
              ELSE Lock(p, [type |-> "evictStale",
                            keys |-> InOrder(ord, ExpiredKeys(Eng, t))])
         /\ SetEngine(E)
         /\ nullValueCache' = IF gc \/ full
                                THEN cleanupNullValueCache(nullValueCache, t)
                                ELSE nullValueCache
         /\ lastGCTime' = IF gc THEN t ELSE lastGCTime
         /\ lastFullGC' = IF full THEN t ELSE lastFullGC
         /\ lastSet' = Forgotten(lastSet, Dropped(E.cache))
         /\ ret' = Ticked("cleanup", full)
  /\ opCount' = opCount + 1
  /\ setOrder' = OtherOps
  /\ UNCHANGED <<introduced, pendingRequests, promise, loaderCalls, loaderOut,
                 nullAt, currentPressureLevel, lastMemoryCheck, versioning, instance, exclusive>>

\* evictStale (lines 424-427): the body of delete(key) for the next expired
\* key, unlock(), and the lock() of the delete of the key after it.
RunEvictStale(p) ==
  /\ pc[p] = "run"
  /\ op[p].type = "evictStale"
  /\ SetEngine(deleteInternal(Eng, Head(op[p].keys)))
  /\ lastSet' = Forgotten(lastSet, {Head(op[p].keys)})
  /\ ret' = NoReturn
  /\ IF Tail(op[p].keys) = <<>>
       THEN /\ op' = [op EXCEPT ![p] = NoOp]
            /\ pc' = Resumed([pc EXCEPT ![p] = "idle"])
            /\ Unlock
       ELSE /\ op' = [op EXCEPT ![p].keys = Tail(@)]
            /\ IF waitingQueue = <<>>
                 THEN UNCHANGED <<mutex, pc>>
                 ELSE /\ waitingQueue' = Append(Tail(waitingQueue), p)
                      /\ locked' = locked
                      /\ pc' = Resumed([pc EXCEPT ![p] = "wait"])
  /\ UNCHANGED <<now, opCount, introduced, flight, setOrder, loaderOut, nullAt,
                 maintenance, versioning, instance, exclusive>>

\* forceGC(aggressive) (lines 1899-1922) runs to its end when called.
ForceGC ==
  /\ CanTick
  /\ \E aggressive \in BOOLEAN, t \in tickInstants,
        ord \in Orders(CacheKeys(cache)) :
       \E byWeight \in Weighings(currentPressureLevel, ord) :
       \E E \in {IF aggressive
                   THEN performFullGC(Eng, ord, t)
                   ELSE executeSmartGC(Eng, currentPressureLevel, ord,
                                       byWeight, t)} :
         /\ TickClock(t)
         /\ SetEngine(E)
         /\ nullValueCache' = cleanupNullValueCache(nullValueCache, t)
         /\ lastSet' = Forgotten(lastSet, Dropped(E.cache))
         /\ ret' = Ticked("forceGC", aggressive)
  /\ opCount' = opCount + 1
  /\ setOrder' = OtherOps
  /\ UNCHANGED <<mutex, pc, op, introduced, pendingRequests, promise,
                 loaderCalls, loaderOut, nullAt, maintenance, versioning, instance, exclusive>>

\* ------------------------------------------------- version-aware instance
\* The instants the clock of the version-aware instance shows (ms), and the
\* modification time the files have when it is constructed.
FirstInstant == 1000
Second == 1000
OldFile == 500

VersionedConstructed ==
  /\ cache = [k \in Keys |-> NoEntry]
  /\ accessOrder = [k \in Keys |-> NoNode]
  /\ lruHead = None
  /\ lruTail = None
  /\ stats = resetStats
  /\ locked = FALSE
  /\ waitingQueue = <<>>
  /\ now = FirstInstant
  /\ pc = [p \in Procs |-> "idle"]
  /\ op = [p \in Procs |-> NoOp]
  /\ ret = NoReturn
  /\ opCount = 0
  /\ introduced = 0
  /\ pendingRequests = [k \in Keys |-> NoProc]
  /\ promise = [p \in Procs |-> NoResult]
  /\ nullValueCache = [k \in Keys |-> 0]
  /\ loaderCalls = [k \in Keys |-> 0]
  /\ setOrder = OtherOps
  /\ lastSet = [k \in Keys |-> NotSet]
  /\ loaderOut = [p \in Procs |-> NoResult]
  /\ nullAt = [k \in Keys |-> -1]
  /\ currentPressureLevel = "LOW"
  /\ lastGCTime = FirstInstant
  /\ lastFullGC = FirstInstant
  /\ lastMemoryCheck = 0
  /\ versionAwareMode = TRUE
  /\ fileWatchers = {}
  /\ dependencyGraph = [f \in Paths |-> {}]
  /\ mtime = [f \in Paths |-> OldFile]
  /\ setups = {}
  /\ intervals = TRUE
  /\ sharedCounter = 0
  /\ issued = <<>>
  /\ granted = <<>>

VersionedInit ==
  /\ VersionedConstructed
  /\ accessController = NoAccessController
  /\ encryptionEnabled = FALSE
  /\ memoryPressureLevels = DefaultLevels
  /\ tickInstants = TickInstants

\* The version-aware instance with encryptionEnabled and sensitivePatterns
EncryptedInit ==
  /\ VersionedConstructed
  /\ accessController = NoAccessController
  /\ encryptionEnabled = TRUE
  /\ memoryPressureLevels = DefaultLevels
  /\ tickInstants = TickInstants

\* The bodies and callbacks of the version-aware instance read the clock one
\* second apart.
VersionedClock(t) == t = now + Second /\ now' = t

\* The effective keys of the base key, in the order Array.prototype.sort
\* (by UTF-16 code units) puts them.
SortedVersionedKeys == <<"a@1", "a@2", "a@3", "a@4">>

\* The loop of cleanupOldVersions (lines 907-911): the cached keys that start
\* with `${baseKey}@` and do not end with `@${currentVersion}`, sorted.
OldVersions(E, baseKey, currentVersion) ==
  SelectSeq(SortedVersionedKeys,
            LAMBDA k : /\ E.cache[k] # NoEntry
                       /\ k # createVersionedKey(baseKey, currentVersion))

\* keysToDelete.sort().slice(0, -2)
AllButLastTwo(ks) == SubSeq(ks, 1, Len(ks) - 2)

cleanupOldVersions(E, baseKey, currentVersion) ==
  IF Len(OldVersions(E, baseKey, currentVersion)) > 2
    THEN DeleteAll(E, AllButLastTwo(OldVersions(E, baseKey, currentVersion)))
    ELSE E

\* The entry a version-aware set with options builds (lines 198-219).
VersionedEntry(k, o, t, fileTimestamp) ==
  [value |-> EncryptedValue(o.key, o.value), created |-> t,
   lastAccessed |-> t, ttl |-> DefaultTTL,
   size |-> approximateMemoryUsage(k, EncryptedValue(o.key, o.value)),
   encrypted |-> shouldEncrypt(o.key), version |-> o.version,
   dependencies |-> o.dependencies, sourceFile |-> o.sourceFile,
   fileTimestamp |-> fileTimestamp]

\* Lines 222-259 of set for an entry already built.
InsertEntry(E, k, entry) ==
  Stored(Enforce(Released(E, k), SizeIncrease(E, k, entry.size),
                 E.cache[k] # NoEntry),
         k, entry, E.cache[k] # NoEntry)

\* getFileTimestamp: the modification time, or Date.now() for a file that
\* cannot be read.
getFileTimestamp(f, t) == IF mtime[f] = Missing THEN t ELSE mtime[f]

\* setupDependencyWatching skips the paths that are watched already (line
\* 811): what is left of files from the first path that is not.
RECURSIVE Unwatched(_, _)
Unwatched(files, watched) ==
  IF files = <<>> THEN <<>>
  ELSE IF Head(files) \in watched THEN Unwatched(Tail(files), watched)
  ELSE files

\* setupDependencyWatching is called for key k with allFiles; it awaits
\* fs.pathExists of the first file of rest, or has completed.
Setup(k, allFiles, rest) == [key |-> k, allFiles |-> allFiles, rest |-> rest]

\* What a step of setupDependencyWatching leaves in ret: no caller gets a
\* return; done tells that the registration has completed.
SetupMark(k, allFiles, done) ==
  [proc |-> NoProc, tick |-> "setup", key |-> k, allFiles |-> allFiles,
   done |-> done]

\* The options of a version-aware set: with files (sourceFile and one
\* dependency) or without.
FileOptions ==
  {[sourceFile |-> None, dependencies |-> <<>>],
   [sourceFile |-> "src", dependencies |-> <<"dep">>]}

\* Every set of the version-aware instance stores a value no earlier one
\* stored.
NextValue == opCount + 1

VersionedCanCall(p) ==
  /\ pc[p] = "idle"
  /\ ~BodyPending
  /\ \A q \in Procs : q < p => pc[q] # "idle"
  /\ opCount < MaxVersionedOps

\* set(key, value, undefined, {version, sourceFile, dependencies})
CallVersionedSet(p) ==
  /\ VersionedCanCall(p)
  /\ \E version \in Versions, f \in FileOptions :
       Lock(p, [type |-> "versionedSet", key |-> BaseKey,
                value |-> NextValue,
                version |-> version, sourceFile |-> f.sourceFile,
                dependencies |-> f.dependencies])
  /\ opCount' = opCount + 1
  /\ ret' = NoReturn
  /\ UNCHANGED <<engine, now, introduced, flight, ghost, maintenance,
                 versioning, instance, exclusive>>

\* The body of a version-aware set up to the insertion (lines 156-219):
\* setupDependencyWatching starts and runs up to its first await,
\* cleanupOldVersions runs to its end; with a sourceFile the body then awaits
\* fs.stat, holding the mutex.
RunVersionedSet(p) ==
  /\ pc[p] = "run"
  /\ op[p].type = "versionedSet"
  /\ \E t \in {now + Second} :
       \E o \in {op[p]} :
       \E k \in {createVersionedKey(o.key, o.version)} :
       \E E \in {cleanupOldVersions(Eng, o.key, o.version)} :
         /\ VersionedClock(t)
         /\ IF o.sourceFile # None
              THEN \E files \in {<<o.sourceFile>> \o o.dependencies} :
                   \E rest \in {Unwatched(files, fileWatchers)} :
                     /\ SetEngine(E)
                     /\ setups' = IF rest = <<>>
                                    THEN setups
                                    ELSE setups \cup {Setup(k, files, rest)}
                     /\ ret' = SetupMark(k, files, rest = <<>>)
                     /\ op' = [op EXCEPT ![p] =
                                 [o EXCEPT !.type = "versionedSetStat"]
                                   @@ [created |-> t]]
                     /\ pc' = [pc EXCEPT ![p] = "stat"]
                     /\ UNCHANGED <<locked, waitingQueue>>
              ELSE \E r \in {InsertEntry(E, k, VersionedEntry(k, o, t, 0))} :
                     /\ SetEngine(r.eng)
                     /\ Complete(p, IF r.threw
                                      THEN Err("MEMORY_LIMIT_EXCEEDED")
                                      ELSE Ok)
                     /\ UNCHANGED setups
  /\ UNCHANGED <<opCount, introduced, flight, ghost, maintenance,
                 versionAwareMode, fileWatchers, dependencyGraph, mtime,
                 instance, exclusive>>

\* fs.stat settles (line 217) and the set inserts the entry (lines 222-259).
VersionedSetStat(p) ==
  /\ pc[p] = "stat"
  /\ ~BodyPending
  /\ op[p].type = "versionedSetStat"
  /\ \E o \in {op[p]} :
       \E k \in {createVersionedKey(o.key, o.version)} :
       \E r \in {InsertEntry(Eng, k,
                             VersionedEntry(k, o, o.created,
                                            getFileTimestamp(o.sourceFile, now)))} :
         /\ now' = now
         /\ SetEngine(r.eng)
         /\ Complete(p, IF r.threw THEN Err("MEMORY_LIMIT_EXCEEDED") ELSE Ok)
  /\ UNCHANGED <<opCount, introduced, flight, ghost, maintenance, versioning, instance, exclusive>>

\* fs.pathExists settles in a call of setupDependencyWatching (lines
\* 814-827): the path is watched and the key joins its dependents; the loop
\* goes on to the next path that is not watched.
SetupStep ==
  /\ ~BodyPending
  /\ \E s \in setups :
       \E f \in {Head(s.rest)} :
       \E watched \in {IF mtime[f] = Missing THEN fileWatchers
                                         ELSE fileWatchers \cup {f}} :
       \E rest \in {Unwatched(Tail(s.rest), watched)} :
         /\ fileWatchers' = watched
         /\ dependencyGraph' =
              IF mtime[f] = Missing THEN dependencyGraph
              ELSE [dependencyGraph EXCEPT ![f] = @ \cup {s.key}]
         /\ setups' = IF rest = <<>>
                        THEN setups \ {s}
                        ELSE (setups \ {s}) \cup {Setup(s.key, s.allFiles, rest)}
         /\ ret' = SetupMark(s.key, s.allFiles, rest = <<>>)
  /\ UNCHANGED <<engine, locked, waitingQueue, now, pc, op, opCount,
                 introduced, flight, ghost, maintenance, versionAwareMode,
                 mtime, instance, exclusive>>

\* invalidateDependentCaches
invalidateDependentCaches(E, graph, f) == DeleteAll(E, AnyOrder(graph[f]))

\* A file is modified; when it is watched, the callback of fs.watch (lines
\* 815-821) gets the 'change' event and runs invalidateDependentCaches.
FileChange ==
  /\ ~BodyPending
  /\ opCount < MaxVersionedOps
  /\ \E f \in Paths, t \in {now + Second} :
       /\ VersionedClock(t)
       /\ mtime' = [mtime EXCEPT ![f] = t]
       /\ IF f \in fileWatchers
            THEN /\ SetEngine(invalidateDependentCaches(Eng, dependencyGraph, f))
                 /\ dependencyGraph' = [dependencyGraph EXCEPT ![f] = {}]
            ELSE UNCHANGED <<engine, dependencyGraph>>
       /\ ret' = [proc |-> NoProc, tick |-> "change", path |-> f]
  /\ opCount' = opCount + 1
  /\ UNCHANGED <<locked, waitingQueue, pc, op, introduced, flight, ghost,
                 maintenance, versionAwareMode, fileWatchers, setups,
                 instance, exclusive>>

\* The options of a version-aware get: none, {} or {version}
\* (validateDependencies keeps its default, true).
NoOptions == [given |-> FALSE, version |-> None]
GetOptions ==
  {NoOptions} \cup {[given |-> TRUE, version |-> v] : v \in Versions \cup {None}}

\* Lines 292-297 of get: without options the key itself; with a version its
\* effective key; with options that name no version the key of Date.now(),
\* which no entry has.
FinalKey(o) ==
  IF ~o.options.given THEN o.key
  ELSE IF o.options.version = None THEN None
  ELSE createVersionedKey(o.key, o.options.version)

\* The loop of getLatestVersionEntry (lines 866-872): the effective keys of
\* the base key whose created exceeds 0 and every other's; the one that comes
\* first in the iteration of the Map wins a tie.
LatestKeys(E) ==
  {k \in VersionedKeys :
     /\ E.cache[k] # NoEntry
     /\ E.cache[k].created > 0
     /\ \A j \in VersionedKeys :
          E.cache[j] # NoEntry => E.cache[j].created <= E.cache[k].created}

\* validateFileTimestamp
validateFileTimestamp(entry) ==
  \/ entry.sourceFile = None
  \/ entry.fileTimestamp = 0
  \/ /\ mtime[entry.sourceFile] # Missing
     /\ mtime[entry.sourceFile] <= entry.fileTimestamp

\* checkDependencyChanges
checkDependencyChanges(entry) ==
  \E i \in 1..Len(entry.dependencies) :
    \/ mtime[entry.dependencies[i]] = Missing
    \/ mtime[entry.dependencies[i]] > entry.created

\* The two validations of get and the one of getLatestVersionEntry await
\* fs.stat for an entry that names files.
NamesFiles(entry, exact) ==
  \/ entry.dependencies # <<>>
  \/ exact /\ entry.sourceFile # None /\ entry.fileTimestamp # 0

\* The entry passes the validations of get (lines 323-341), or the one of
\* getLatestVersionEntry (lines 876-882).
Valid(entry, exact) ==
  /\ exact => validateFileTimestamp(entry)
  /\ ~checkDependencyChanges(entry)

\* Lines 344-347 of get for the entry the body holds: the entry may have left
\* the map while the body awaited fs.stat, and then moveToHead finds no node.
Hit(E, k, t) ==
  IF E.cache[k] # NoEntry
    THEN Touch(E, k, t)
    ELSE updateHitRate([E EXCEPT !.stats.hits = @ + 1])

CallVersionedGet(p) ==
  /\ VersionedCanCall(p)
  /\ \E o \in GetOptions :
       Lock(p, [type |-> "versionedGet", key |-> BaseKey, options |-> o])
  /\ opCount' = opCount + 1
  /\ ret' = NoReturn
  /\ UNCHANGED <<engine, now, introduced, flight, ghost, maintenance,
                 versioning, instance, exclusive>>

\* The body of get up to its first fs.stat, or to its end: a miss on the key
\* itself (lines 307-311), the entry of the version asked for (lines
\* 314-350), or getLatestVersionEntry (line 300).
RunVersionedGet(p) ==
  /\ pc[p] = "run"
  /\ op[p].type = "versionedGet"
  /\ \E t \in {now + Second} :
       \E o \in {op[p]} :
       \E exact \in {Has(cache, FinalKey(o))} :
       \E k \in (IF exact THEN {FinalKey(o)}
                 ELSE IF ~o.options.given \/ LatestKeys(Eng) = {} THEN {None}
                 ELSE LatestKeys(Eng)) :
         /\ VersionedClock(t)
         /\ IF k = None
              THEN /\ SetEngine(IF o.options.given THEN Eng ELSE Missed(Eng))
                   /\ Complete(p, Absent)
              ELSE IF exact /\ isExpired(cache[k], t)
              THEN /\ NestedLock(p)
                   /\ ret' = NoReturn
                   /\ UNCHANGED <<engine, op>>
              ELSE IF NamesFiles(cache[k], exact)
              THEN /\ op' = [op EXCEPT ![p] =
                               [type |-> "versionedGetStat", key |-> o.key,
                                options |-> o.options, finalKey |-> k,
                                exact |-> exact, entry |-> cache[k]]]
                   /\ pc' = [pc EXCEPT ![p] = "stat"]
                   /\ ret' = NoReturn
                   /\ UNCHANGED <<engine, locked, waitingQueue>>
              ELSE /\ SetEngine(IF exact THEN Hit(Eng, k, t) ELSE Eng)
                   /\ Complete(p, Val(IF exact THEN Decrypted(cache[k])
                                                ELSE cache[k].value))
  /\ UNCHANGED <<opCount, introduced, flight, ghost, maintenance, versioning, instance, exclusive>>

\* fs.stat has settled for every file of the entry: the body goes on to the
\* hit (lines 344-369), to the return of getLatestVersionEntry (line 884), or
\* to await this.delete (lines 325, 336, 879) on the mutex it holds.
VersionedGetStat(p) ==
  /\ pc[p] = "stat"
  /\ op[p].type = "versionedGetStat"
  /\ ~BodyPending
  /\ \E o \in {op[p]} :
       IF Valid(o.entry, o.exact)
         THEN /\ SetEngine(IF o.exact THEN Hit(Eng, o.finalKey, now) ELSE Eng)
              /\ Complete(p, Val(IF o.exact THEN Decrypted(o.entry)
                                           ELSE o.entry.value))
         ELSE /\ NestedLock(p)
              /\ ret' = NoReturn
              /\ UNCHANGED <<engine, op>>
  /\ UNCHANGED <<now, opCount, introduced, flight, ghost, maintenance,
                 versioning, instance, exclusive>>

Next ==
  \/ \E p \in Procs : CallSet(p)
  \/ \E p \in Procs : CallGet(p)
  \/ \E p \in Procs : CallDelete(p)
  \/ \E p \in Procs : CallClear(p)
  \/ \E p \in Procs : CallSetMany(p)
  \/ \E p \in Procs : CallGetMany(p)
  \/ \E p \in Procs : CallDeleteMany(p)
  \/ \E p \in Procs : CallGetWithProtection(p)
  \/ \E p \in Procs : RunSet(p)
  \/ \E p \in Procs : RunGet(p)
  \/ \E p \in Procs : RunGetExpired(p)
  \/ \E p \in Procs : RunDelete(p)
  \/ \E p \in Procs : RunClear(p)
  \/ \E p \in Procs : RunSetMany(p)
  \/ \E p \in Procs : RunManyEmpty(p)
  \/ \E p \in Procs : RunManyNested(p)
  \/ \E p \in Procs : AfterGet(p)
  \/ \E p \in Procs : RunLoadHit(p)
  \/ \E p \in Procs : RunLoadMiss(p)
  \/ \E p \in Procs : LoaderReturns(p)
  \/ \E p \in Procs : AfterLoad(p)
  \/ \E p \in Procs : AfterPending(p)

Spec == Init /\ [][Next]_vars

\* The same instance with its timers running and forceGC in use.
MaintainedNext ==
  \/ Next
  \/ StatsTick
  \/ \E p \in Procs : CleanupTick(p)
  \/ \E p \in Procs : RunEvictStale(p)
  \/ ForceGC

MaintainedSpec == Init /\ [][MaintainedNext]_vars

\* -------------------------------------------- the instance that denies set
\* The instances constructed with an accessControl that leaves 'set' out of
\* allowedOperations, or that restricts the key 'b'.
SetDenyingControllers ==
  {AccessController({"get", "delete", "clear"}, {}, {}),
   AccessController(AllOperations, {"b"}, {})}

DenyingInit ==
  /\ Constructed
  /\ accessController \in SetDenyingControllers
  /\ encryptionEnabled = FALSE
  /\ memoryPressureLevels = DefaultLevels
  /\ tickInstants = TickInstants

DenyingNext ==
  \/ \E p \in Procs : CallSet(p)
  \/ \E p \in Procs : CallSetMany(p)
  \/ \E p \in Procs : CallGetWithProtection(p)
  \/ \E p \in Procs : RunSet(p)
  \/ \E p \in Procs : RunSetMany(p)
  \/ \E p \in Procs : RunGet(p)
  \/ \E p \in Procs : RunGetExpired(p)
  \/ \E p \in Procs : RunDenied(p)
  \/ \E p \in Procs : AfterGet(p)
  \/ \E p \in Procs : RunLoadHit(p)
  \/ \E p \in Procs : RunLoadMiss(p)
  \/ \E p \in Procs : LoaderReturns(p)
  \/ \E p \in Procs : AfterLoad(p)
  \/ \E p \in Procs : AfterPending(p)

DenyingSpec == DenyingInit /\ [][DenyingNext]_vars

\* ------------------------------------------------ the instance that encrypts
\* The instance constructed with encryption.enabled and sensitivePatterns.
SensitiveInit ==
  /\ Constructed
  /\ accessController = NoAccessController
  /\ encryptionEnabled = TRUE
  /\ memoryPressureLevels = DefaultLevels
  /\ tickInstants = TickInstants

SensitiveSpec == SensitiveInit /\ [][Next]_vars

\* ------------------------------------------------------- paced maintenance
\* An instance whose timers fire around the cool-downs of the pressure
\* levels, and whose thresholds can be changed.
\* The instants its timers fire at and forceGC is called at (ms).
PacedInstants == {0, 5000, 15000, 30000, 120000, 120001, 300000, 600001}

\* The arguments of setMemoryPressureThresholds, in percent; Missing is a
\* field left out.
Thresholds(low, medium, high, critical) ==
  [low |-> low, medium |-> medium, high |-> high, critical |-> critical]

ThresholdInputs ==
  {Thresholds(10, 30, 60, 68), Thresholds(Missing, 60, Missing, Missing)}

Given(x, old) == IF x # Missing THEN x ELSE old

\* setMemoryPressureThresholds (lines 1928-1940); the model calls it once.
SetMemoryPressureThresholds ==
  /\ ~BodyPending
  /\ memoryPressureLevels = DefaultLevels
  /\ \E thresholds \in ThresholdInputs :
       memoryPressureLevels' =
         [LOW |-> Given(thresholds.low, memoryPressureLevels.LOW),
          MEDIUM |-> Given(thresholds.medium, memoryPressureLevels.MEDIUM),
          HIGH |-> Given(thresholds.high, memoryPressureLevels.HIGH),
          CRITICAL |-> Given(thresholds.critical,
                             memoryPressureLevels.CRITICAL)]
  /\ ret' = NoReturn
  /\ UNCHANGED <<engine, mutex, now, pc, op, opCount, introduced, flight,
                 ghost, maintenance, versioning, accessController,
                 encryptionEnabled, intervals, tickInstants, exclusive>>

PacedInit ==
  /\ Constructed
  /\ accessController = NoAccessController
  /\ encryptionEnabled = FALSE
  /\ memoryPressureLevels = DefaultLevels
  /\ tickInstants = PacedInstants

PacedNext ==
  \/ SetMemoryPressureThresholds
  \/ \E p \in Procs : CallSet(p)
  \/ \E p \in Procs : CallSetMany(p)
  \/ \E p \in Procs : RunSet(p)
  \/ \E p \in Procs : RunSetMany(p)
  \/ StatsTick
  \/ \E p \in Procs : CleanupTick(p)
  \/ \E p \in Procs : RunEvictStale(p)
  \/ ForceGC

PacedSpec == PacedInit /\ [][PacedNext]_vars

\* The engine with an AccessController and its operations on one key.
AccessControllers ==
  {AccessController(AllOperations, {"b"}, {}),
   AccessController({"get", "set", "delete"}, {}, {"^[bc]$"})}

GuardedInit ==
  /\ Constructed
  /\ accessController \in AccessControllers
  /\ encryptionEnabled = FALSE
  /\ memoryPressureLevels = DefaultLevels
  /\ tickInstants = TickInstants

GuardedNext ==
  \/ \E p \in Procs : CallSet(p)
  \/ \E p \in Procs : CallSetWithTTL(p)
  \/ \E p \in Procs : CallGet(p)
  \/ \E p \in Procs : CallDelete(p)
  \/ \E p \in Procs : CallClear(p)
  \/ \E p \in Procs : RunSet(p)
  \/ \E p \in Procs : RunGet(p)
  \/ \E p \in Procs : RunGetExpired(p)
  \/ \E p \in Procs : RunDelete(p)
  \/ \E p \in Procs : RunClear(p)
  \/ \E p \in Procs : RunDenied(p)

GuardedSpec == GuardedInit /\ [][GuardedNext]_vars

\* destroy() up to its call of clear (lines 640-648): the two intervals are
\* cleared, destroyVersionManagement closes and forgets the watchers and
\* empties the dependency graph, and clear asks for the mutex.
CallDestroy(p) ==
  /\ CanCall(p)
  /\ intervals' = FALSE
  /\ fileWatchers' = IF versionAwareMode THEN {} ELSE fileWatchers
  /\ dependencyGraph' = IF versionAwareMode
                          THEN [f \in Paths |-> {}]
                          ELSE dependencyGraph
  /\ Lock(p, [type |-> "destroy"])
  /\ opCount' = opCount + 1
  /\ ret' = NoReturn
  /\ setOrder' = OtherOps
  /\ UNCHANGED <<engine, now, introduced, flight, lastSet, loaderOut, nullAt,
                 maintenance, versionAwareMode, mtime, setups,
                 accessController, encryptionEnabled, memoryPressureLevels,
                 tickInstants, exclusive>>

\* The body of the clear that destroy awaits (lines 393-404), and the return
\* of destroy.
RunDestroy(p) ==
  /\ pc[p] = "run"
  /\ op[p].type = "destroy"
  /\ ~Denied([type |-> "clear"])
  /\ cache' = [k \in Keys |-> NoEntry]
  /\ accessOrder' = [k \in Keys |-> NoNode]
  /\ lruHead' = None
  /\ lruTail' = None
  /\ stats' = resetStats
  /\ Complete(p, Ok)
  /\ lastSet' = Forgotten(lastSet, Keys)
  /\ UNCHANGED <<now, opCount, introduced, flight, setOrder, loaderOut, nullAt>>
  /\ UNCHANGED <<maintenance, versioning, instance, exclusive>>

\* The instance in use until it is destroyed, and after.
DestroyNext ==
  \/ \E p \in Procs : CallSet(p)
  \/ \E p \in Procs : CallGetWithProtection(p)
  \/ \E p \in Procs : CallDestroy(p)
  \/ \E p \in Procs : RunSet(p)
  \/ \E p \in Procs : RunGet(p)
  \/ \E p \in Procs : RunGetExpired(p)
  \/ \E p \in Procs : AfterGet(p)
  \/ \E p \in Procs : RunLoadHit(p)
  \/ \E p \in Procs : RunLoadMiss(p)
  \/ \E p \in Procs : LoaderReturns(p)
  \/ \E p \in Procs : AfterLoad(p)
  \/ \E p \in Procs : AfterPending(p)
  \/ \E p \in Procs : RunDestroy(p)
  \/ StatsTick

DestroySpec == Init /\ [][DestroyNext]_vars

\* ------------------------------------------------------- AsyncMutex alone
\* Three tasks share one AsyncMutex and a counter; each call of runExclusive
\* passes one of three bodies: a read-modify-write of the counter that
\* suspends between the read and the write, a body that throws at once, and
\* a body that throws after suspending.
MutexTasks == {1, 2, 3}
Operations == {"increment", "syncError", "asyncError"}
MaxMutexCalls == 4

MutexInit ==
  /\ locked = FALSE
  /\ waitingQueue = <<>>
  /\ pc = [p \in MutexTasks |-> "idle"]
  /\ op = [p \in MutexTasks |-> NoOp]
  /\ ret = NoReturn
  /\ opCount = 0
  /\ sharedCounter = 0
  /\ issued = <<>>
  /\ granted = <<>>
  /\ cache = [k \in Keys |-> NoEntry]
  /\ accessOrder = [k \in Keys |-> NoNode]
  /\ lruHead = None
  /\ lruTail = None
  /\ stats = resetStats
  /\ now = 0
  /\ introduced = 0
  /\ pendingRequests = [k \in Keys |-> NoProc]
  /\ promise = [p \in MutexTasks |-> NoResult]
  /\ nullValueCache = [k \in Keys |-> 0]
  /\ loaderCalls = [k \in Keys |-> 0]
  /\ setOrder = OtherOps
  /\ lastSet = [k \in Keys |-> NotSet]
  /\ loaderOut = [p \in MutexTasks |-> NoResult]
  /\ nullAt = [k \in Keys |-> -1]
  /\ currentPressureLevel = "LOW"
  /\ lastGCTime = 0
  /\ lastFullGC = 0
  /\ lastMemoryCheck = 0
  /\ versionAwareMode = FALSE
  /\ fileWatchers = {}
  /\ dependencyGraph = [f \in Paths |-> {}]
  /\ mtime = [f \in Paths |-> Missing]
  /\ setups = {}
  /\ accessController = NoAccessController
  /\ encryptionEnabled = FALSE
  /\ memoryPressureLevels = DefaultLevels
  /\ tickInstants = TickInstants
  /\ intervals = FALSE

\* What no step of the mutex touches.
cacheManager ==
  <<engine, now, introduced, flight, setOrder, lastSet, loaderOut, nullAt,
    maintenance, versioning, instance>>

\* runExclusive(operation) up to `await this.lock()`
CallRunExclusive(p) ==
  /\ pc[p] = "idle"
  /\ opCount < MaxMutexCalls
  /\ \E operation \in Operations : Lock(p, [type |-> operation])
  /\ issued' = Append(issued, p)
  /\ opCount' = opCount + 1
  /\ ret' = NoReturn
  /\ UNCHANGED <<sharedCounter, granted, cacheManager>>

\* A body has begun.
Began(p) == granted' = Append(granted, [task |-> p, type |-> op[p].type])

\* A faulty variant of runExclusive: no finally, a throw skips unlock.
RejectsHoldingLock(p) ==
  /\ ret' = Return(p, Err("OPERATION_FAILED"))
  /\ op' = [op EXCEPT ![p] = NoOp]
  /\ pc' = [pc EXCEPT ![p] = "idle"]
  /\ UNCHANGED mutex

\* `finally { this.unlock() }` after the operation threw: the error goes to
\* the caller of runExclusive.
Rejects(p) == Complete(p, Err("OPERATION_FAILED"))

\* The body reads the counter and suspends on a timer, holding the mutex.
RunIncrement(p) ==
  /\ pc[p] = "run"
  /\ op[p].type = "increment"
  /\ op' = [op EXCEPT ![p] = [type |-> "increment", current |-> sharedCounter]]
  /\ pc' = [pc EXCEPT ![p] = "suspended"]
  /\ Began(p)
  /\ ret' = NoReturn
  /\ UNCHANGED <<mutex, opCount, sharedCounter, issued, cacheManager>>

\* The timer fired: the body writes current + 1 and returns; finally unlocks.
ResumeIncrement(p) ==
  /\ pc[p] = "suspended"
  /\ op[p].type = "increment"
  /\ sharedCounter' = op[p].current + 1
  /\ Complete(p, Val(op[p].current + 1))
  /\ UNCHANGED <<opCount, issued, granted, cacheManager>>

\* The body throws before it suspends.
RunSyncError(p) ==
  /\ pc[p] = "run"
  /\ op[p].type = "syncError"
  /\ Began(p)
  /\ Rejects(p)
  /\ UNCHANGED <<opCount, sharedCounter, issued, cacheManager>>

\* The body suspends on a timer, holding the mutex, to throw later.
RunAsyncError(p) ==
  /\ pc[p] = "run"
  /\ op[p].type = "asyncError"
  /\ pc' = [pc EXCEPT ![p] = "suspended"]
  /\ Began(p)
  /\ ret' = NoReturn
  /\ UNCHANGED <<mutex, op, opCount, sharedCounter, issued, cacheManager>>

ResumeAsyncError(p) ==
  /\ pc[p] = "suspended"
  /\ op[p].type = "asyncError"
  /\ Rejects(p)
  /\ UNCHANGED <<opCount, sharedCounter, issued, granted, cacheManager>>

\* unlock() called on the mutex while nobody holds it: it throws (line 32).
UnlockUnlocked ==
  /\ ~locked
  /\ ret.proc # NoProc \/ "tick" \notin DOMAIN ret
  /\ ret' = [proc |-> NoProc, tick |-> "unlock", out |-> Err("NOT_LOCKED")]
  /\ UNCHANGED <<mutex, pc, op, opCount, exclusive, cacheManager>>

MutexNext ==
  \/ \E p \in MutexTasks : CallRunExclusive(p)
  \/ \E p \in MutexTasks : RunIncrement(p)
  \/ \E p \in MutexTasks : ResumeIncrement(p)
  \/ \E p \in MutexTasks : RunSyncError(p)
  \/ \E p \in MutexTasks : RunAsyncError(p)
  \/ \E p \in MutexTasks : ResumeAsyncError(p)
  \/ UnlockUnlocked

MutexSpec == MutexInit /\ [][MutexNext]_vars

\* The version-aware instance, with its file watchers.
VersionedNext ==
  \/ \E p \in Procs : CallVersionedSet(p)
  \/ \E p \in Procs : RunVersionedSet(p)
  \/ \E p \in Procs : VersionedSetStat(p)
  \/ SetupStep
  \/ FileChange
  \/ \E p \in Procs : CallVersionedGet(p)
  \/ \E p \in Procs : RunVersionedGet(p)
  \/ \E p \in Procs : VersionedGetStat(p)

VersionedSpec == VersionedInit /\ [][VersionedNext]_vars

EncryptedSpec == EncryptedInit /\ [][VersionedNext]_vars

\* ------------------------------------------------------------------ claims
\* The LRU list, read from lruHead along the next pointers.
RECURSIVE Walk(_, _, _)
Walk(ao, k, n) ==
  IF k = None \/ n = 0 THEN <<>>
  ELSE IF ao[k] = NoNode THEN <<k>>
  ELSE <<k>> \o Walk(ao, ao[k].next, n - 1)

Chain == Walk(accessOrder, lruHead, Cardinality(Keys) + 1)
Range(sq) == {sq[i] : i \in 1..Len(sq)}

\* C1: the LRU list is a permutation of the keys of the map; lruHead and
\* lruTail are undefined exactly when the map is empty; lruTail is the last
\* node of the list that starts at lruHead.
C1_LRUWellFormed ==
  /\ Len(Chain) = CacheSize(cache)
  /\ Range(Chain) = CacheKeys(cache)
  /\ (lruHead = None) <=> (CacheKeys(cache) = {})
  /\ (lruTail = None) <=> (CacheKeys(cache) = {})
  /\ Chain # <<>> => lruTail = Chain[Len(Chain)]

LastKeys(items, n) == {items[i].key : i \in (Len(items) - n + 1)..Len(items)}

\* C2: after N > maxEntries successful sets of distinct keys into a cold
\* engine, with no other operation and the memory limit not binding, the keys
\* that remain are the last maxEntries keys set.
C2_EvictsOldest ==
  (/\ setOrder.only
   /\ Len(setOrder.items) > MaxEntries
   /\ SumSizes(setOrder.items) <= MaxMemory)
    => CacheKeys(cache) = LastKeys(setOrder.items, MaxEntries)

\* C3: a set that fails with MEMORY_LIMIT_EXCEEDED leaves the map, the LRU
\* list and the statistics as they were.
C3_FailedSetChangesNothing ==
  [][(/\ ret'.proc # NoProc
      /\ ret'.op.type = "set"
      /\ ret'.out = Err("MEMORY_LIMIT_EXCEEDED"))
       => UNCHANGED engine]_vars

Successful(r) ==
  \/ r.op.type = "set" /\ r.out = Ok
  \/ r.op.type = "setMany"
  \/ r.op.type = "getWithProtection" /\ r.out.kind = "value"

\* C4: when a set, a setMany or a getWithProtection returns successfully,
\* stats.memoryUsage is at most maxMemory.
C4_MemoryWithinLimit ==
  (ret.proc # NoProc /\ Successful(ret)) => stats.memoryUsage <= MaxMemory

\* C5: after every operation the map holds at most maxEntries entries.
C5_EntriesWithinLimit == CacheSize(cache) <= MaxEntries

\* C6: no operation waits on the mutex it holds itself (such a wait never
\* ends, so the operation never returns and never releases the mutex).
C6_NoWaitOnOwnMutex == \A p \in Procs : pc[p] # "selfwait"

\* C7: a get that finds its entry expired returns undefined, removes the
\* entry and counts one miss.
C7_ExpiredGet ==
  [][\A p \in Procs :
       (/\ pc[p] = "run"
        /\ op[p].type = "get"
        /\ ~op[p].protected
        /\ pc'[p] # "run"
        /\ DeadEntry(op[p].key, now'))
         => /\ ret' = Return(p, Absent)
            /\ cache'[op[p].key] = NoEntry
            /\ stats'.misses = stats.misses + 1]_vars

\* A get of k has just returned.
GetReturned(k) ==
  ret.proc # NoProc /\ ret.op.type = "get" /\ ret.op.key = k

\* The TTL of the last set of k has not elapsed at the instant the get read.
InTTL(k) == now <= lastSet[k].at + DefaultTTL * 1000

C9_LoadedValueDelivered ==
  \A p \in Procs :
    (pc[p] = "afterLoad" /\ loaderOut[p].kind = "value")
      => promise[p] = loaderOut[p]

LoaderThrew(p) ==
  pc[p] = "loading" /\ loaderOut'[p] = Err("LOADER_ERROR")

Unexpired(k, t) ==
  IF cache[k] = NoEntry THEN FALSE ELSE t <= cache[k].created + cache[k].ttl * 1000

\* C12 as stated: the map holds no unexpired entry for a key that is
\* registered in pendingRequests.
C12_NoLiveEntryWhilePending ==
  \A k \in Keys : pendingRequests[k] # NoProc => ~Unexpired(k, now)

\* C12 amended: the map holds no unexpired entry for a key whose loader is
\* running (its load passed the double check and has not settled).
C12_NoLiveEntryWhileLoading ==
  \A p \in Procs : pc[p] = "loading" => ~Unexpired(op[p].key, now)

\* A loader runs for a registered key whose entry, set while the load was on
\* its way to the mutex, has expired.
C12_LoadingOverExpiredReached ==
  \E p \in Procs :
    /\ pc[p] = "loading"
    /\ pendingRequests[op[p].key] = p
    /\ cache[op[p].key] # NoEntry

\* Activity p is inside its critical section: it owns the mutex.
Holds(p) == pc[p] \in {"run", "loading"}

\* Activity p takes the step.
Acts(p) == pc'[p] # pc[p] \/ op'[p] # op[p]

\* C13: a step that changes the map, the LRU list, the statistics or the
\* null-value cache is taken by the activity that owns the mutex.
C13_MutationsUnderMutex ==
  [][(engine' # engine \/ nullValueCache' # nullValueCache)
       => \E p \in Procs : Holds(p) /\ Acts(p)]_vars

\* A call of setupDependencyWatching has completed in the last step.
SetupDone == ret # NoReturn /\ ret.proc = NoProc /\ ret.tick = "setup" /\ ret.done

\* C14: when the registration of a version-aware set that names a sourceFile
\* and dependencies completes, the effective key is among the dependents
\* dependencyGraph holds for each of these files that exists.
C14_DependentsRegistered ==
  SetupDone =>
    \A i \in 1..Len(ret.allFiles) :
      mtime[ret.allFiles[i]] # Missing
        => ret.key \in dependencyGraph[ret.allFiles[i]]

\* The body of p's get resumes from fs.stat and finds that a dependency of
\* the entry has changed or is gone.
FindsChangedDependency(p) ==
  /\ pc[p] = "stat"
  /\ op[p].type = "versionedGetStat"
  /\ checkDependencyChanges(op[p].entry)
  /\ pc'[p] # "stat"

\* C15: a version-aware get that validates dependencies, on an entry one of
\* whose dependencies has an mtime later than the entry's created or no
\* longer exists, returns absent and removes the entry.
C15_ChangedDependencyRemoves ==
  [][\A p \in Procs :
       FindsChangedDependency(p)
         => (/\ ret'.proc = p
             /\ ret'.out = Absent
             /\ cache'[op[p].finalKey] = NoEntry)]_vars

\* The last step was the return of a version-aware get.
VersionedGetReturned ==
  /\ ret # NoReturn
  /\ ret.proc # NoProc
  /\ ret.op.type \in {"versionedGet", "versionedGetStat"}

\* The effective keys of the base key that are in the map.
CachedVersions == {k \in VersionedKeys : cache[k] # NoEntry}

\* An effective key of the base key with the largest created.
MostRecent ==
  CHOOSE k \in CachedVersions :
    \A j \in CachedVersions : cache[j].created <= cache[k].created

\* C16: in version-aware mode a get that names no version returns the value
\* of the entry of the base key with the largest created, and a get that
\* names a version returns the value stored under that version.
C16_LatestVersionResolution ==
  VersionedGetReturned =>
    /\ (ret.op.options.version = None /\ CachedVersions # {})
          => ret.out = Val(cache[MostRecent].value)
    /\ (ret.op.options.version # None
          /\ cache[createVersionedKey(ret.op.key, ret.op.options.version)] # NoEntry)
          => ret.out = Val(cache[createVersionedKey(ret.op.key,
                                                    ret.op.options.version)].value)

\* The last step was the return of a version-aware set.
VersionedSetReturned ==
  /\ ret # NoReturn
  /\ ret.proc # NoProc
  /\ ret.op.type \in {"versionedSet", "versionedSetStat"}

\* C17: when a version-aware set for a base key and the cleanup it starts
\* have completed, at most two effective keys of the base key remain in the
\* map.
C17_AtMostTwoVersions ==
  VersionedSetReturned => Cardinality(CachedVersions) <= 2

Recalibrated ==
  ret # NoReturn /\ ret.proc = NoProc /\ ret.tick = "stats" /\ ret.recalculated

\* C19: the sum of entry.size over the map and stats.memoryUsage never differ
\* by more than the recalibration tolerance, and do not differ at all
\* immediately after recalculateMemoryUsage has run.
C19_MemoryUsageRecalibrated ==
  /\ Abs(TotalSize(cache) - stats.memoryUsage) <= RecalibrationTolerance
  /\ Recalibrated => TotalSize(cache) = stats.memoryUsage

\* p's version-aware get completes in this step.
GetCompletes(p) ==
  /\ pc[p] \in {"run", "stat"}
  /\ op[p].type \in {"versionedGet", "versionedGetStat"}
  /\ ret'.proc = p

\* C20: every get that completes adds one to exactly one counter,
\* stats.hits when it returns a value and stats.misses when it returns
\* absent, whichever way it reads, and leaves hitRate at
\* 100 * hits / (hits + misses).
C20_GetCountsOnce ==
  [][\A p \in Procs :
       GetCompletes(p)
         => (/\ stats'.hits = stats.hits + (IF ret'.out = Absent THEN 0 ELSE 1)
             /\ stats'.misses = stats.misses + (IF ret'.out = Absent THEN 1 ELSE 0)
             /\ stats'.hitRate = Percent(stats'.hits,
                                         stats'.hits + stats'.misses))]_vars

\* The body of p's delete runs in this step.
DeleteRuns(p) ==
  /\ pc[p] = "run"
  /\ op[p].type = "delete"
  /\ ret'.proc = p

\* No pointer of the LRU list names k.
Unlinked(ao, head, tail, k) ==
  /\ ao[k] = NoNode
  /\ head # k
  /\ tail # k
  /\ \A j \in Keys : ao[j] # NoNode => (ao[j].prev # k /\ ao[j].next # k)

\* C21: delete of a key that is present returns true, removes the entry,
\* subtracts its size from memoryUsage and unlinks it from the LRU list;
\* delete of a key that is absent, as the second of two consecutive deletes
\* is, returns false and changes nothing.
C21_DeleteIdempotent ==
  [][\A p \in Procs :
       DeleteRuns(p)
         => IF cache[op[p].key] # NoEntry
              THEN /\ ret'.out = Bool(TRUE)
                   /\ cache'[op[p].key] = NoEntry
                   /\ stats'.memoryUsage =
                        stats.memoryUsage - cache[op[p].key].size
                   /\ Unlinked(accessOrder', lruHead', lruTail', op[p].key)
              ELSE /\ ret'.out = Bool(FALSE)
                   /\ UNCHANGED engine]_vars

\* The body of p's setMany runs in this step.
SetManyRuns(p) ==
  /\ pc[p] = "run"
  /\ op[p].type = "setMany"
  /\ ret'.proc = p

\* C22: setMany reports every item in exactly one of success and failed; an
\* item reported failed is not inserted and leaves the entry of its key as it
\* was; an item reported in success is in the map with an LRU node when the
\* call returns.
C22_SetManyReport ==
  [][\A p \in Procs :
       SetManyRuns(p)
         => (/\ ret'.out.success \cup ret'.out.failed = 1..Len(op[p].items)
             /\ ret'.out.success \cap ret'.out.failed = {}
             /\ \A i \in ret'.out.failed :
                  cache'[op[p].items[i].key] = cache[op[p].items[i].key]
             /\ \A i \in ret'.out.success :
                  /\ cache'[op[p].items[i].key] # NoEntry
                  /\ accessOrder'[op[p].items[i].key] # NoNode)]_vars

\* C23: an operation the access control denies (set, get, delete or clear)
\* fails with error code ACCESS_DENIED and leaves the map, the LRU list and
\* the stats as they were.
C23_DeniedWithAccessDenied ==
  [][\A p \in Procs :
       (pc[p] = "run" /\ op[p].type \in AllOperations /\ Denied(op[p])
          /\ ret'.proc = p)
         => (/\ ret'.out = Err("ACCESS_DENIED")
             /\ UNCHANGED engine)]_vars

\* validateTTL of the validators: an integer from 1 to one year of seconds
MaxTTL == 31536000

validateTTL(ttl) == ttl >= 1 /\ ttl <= MaxTTL

\* C24: a set whose explicit TTL is invalid (negative, or above one year) is
\* rejected with an error and leaves the cache unchanged: no entry is stored,
\* totalEntries and memoryUsage keep their values.
C24_InvalidTTLRejected ==
  [][\A p \in Procs :
       (/\ pc[p] = "run"
        /\ op[p].type = "set"
        /\ TTLOf(op[p]) # NoTTL
        /\ ~validateTTL(TTLOf(op[p])[1])
        /\ ret'.proc = p)
         => (/\ ret'.out.kind = "error"
             /\ UNCHANGED engine)]_vars

\* The record of encrypt stands for a text longer than every plaintext.
IsCipherRecord(v) == v >= CipherOverhead

EncryptedHit(p) ==
  /\ pc[p] \in {"run", "stat"}
  /\ op[p].type \in {"versionedGet", "versionedGetStat"}
  /\ ret'.proc = p
  /\ ret'.out.kind = "value"

\* C25: with encryption enabled, a successful read never returns a cipher
\* record: a hit on an entry stored with encrypted = true returns the
\* plaintext given to set, on the plain key, on an explicit version and on
\* the latest-version resolution.
C25_HitReturnsPlaintext ==
  [][\A p \in Procs :
       EncryptedHit(p) => ~IsCipherRecord(ret'.out.v)]_vars

DestroyReturned ==
  /\ ret.proc # NoProc
  /\ ret.op.type = "destroy"
  /\ ret.out = Ok

\* C26: after destroy() completes no periodic tick fires any more, no file
\* watcher is left, and the map, the LRU list, the dependency graph, the
\* null-value cache and the single-flight registry are all empty.
C26_DestroyLeavesNothing ==
  DestroyReturned =>
    /\ ~intervals
    /\ fileWatchers = {}
    /\ CacheKeys(cache) = {}
    /\ lruHead = None /\ lruTail = None
    /\ \A k \in Keys : accessOrder[k] = NoNode
    /\ \A f \in Paths : dependencyGraph[f] = {}
    /\ \A k \in Keys : nullValueCache[k] = 0
    /\ \A k \in Keys : pendingRequests[k] = NoProc

\* The tasks whose body is between acquiring and releasing the mutex.
InBody == {p \in MutexTasks : pc[p] \in {"run", "suspended"}}

Increments == {i \in DOMAIN granted : granted[i].type = "increment"}

\* C27: at most one body passed to runExclusive is between acquiring and
\* releasing the lock, even while a body is suspended; once the concurrent
\* read-modify-write bodies have all returned, the shared counter equals
\* their number.
C27_MutualExclusion ==
  /\ Cardinality(InBody) <= 1
  /\ (\A p \in MutexTasks : pc[p] = "idle")
       => sharedCounter = Cardinality(Increments)

C27_Witness ==
  /\ \E p \in MutexTasks : pc[p] = "suspended" /\ op[p].type = "increment"
  /\ Len(waitingQueue) = 2
  /\ \A i \in 1..2 : op[waitingQueue[i]].type = "increment"
  /\ sharedCounter = 1

\* C28: bodies begin in the order lock() was called: waiters are resumed
\* first-in-first-out, and a lock() issued after an unlock() that handed the
\* mutex to a waiter does not get it before that waiter.
C28_FIFO ==
  /\ Len(granted) <= Len(issued)
  /\ \A i \in DOMAIN granted : granted[i].task = issued[i]

\* The first task has returned and handed the mutex to a waiter that has not
\* begun yet, and has called lock() again since.
C28_Witness ==
  /\ Len(granted) = 1
  /\ \E p \in MutexTasks : pc[p] = "run" /\ p # granted[1].task
  /\ waitingQueue = <<granted[1].task>>

ReleasedOnce ==
  IF waitingQueue # <<>>
    THEN /\ locked'
         /\ waitingQueue' = Tail(waitingQueue)
         /\ pc'[Head(waitingQueue)] = "run"
    ELSE /\ ~locked'
         /\ waitingQueue' = <<>>

\* C29: when the operation passed to runExclusive throws, at once or after
\* suspending, the caller gets the error and the mutex is released exactly
\* once: handed to the next waiter, or unlocked when nobody waits; unlock()
\* on an unlocked mutex throws and leaves the mutex as it was.
C29_ThrowReleases ==
  [][/\ \A p \in MutexTasks :
          (/\ pc[p] \in {"run", "suspended"}
           /\ op[p].type \in {"syncError", "asyncError"}
           /\ ret'.proc = p)
            => (/\ ret'.out.kind = "error"
                /\ pc'[p] = "idle"
                /\ ReleasedOnce)
     /\ (/\ ret' # ret
         /\ "tick" \in DOMAIN ret'
         /\ ret'.tick = "unlock")
          => (/\ ret'.out.kind = "error"
              /\ UNCHANGED mutex)]_vars

\* An operation threw while another caller waited, and the waiter has the
\* mutex.
C29_Witness ==
  /\ ret.proc # NoProc
  /\ ret.op.type = "asyncError"
  /\ ret.out.kind = "error"
  /\ locked
  /\ \E q \in MutexTasks : q # ret.proc /\ pc[q] = "run"

\* The operation that returned last was a hit of get.
LastWasHit ==
  /\ ret.proc # NoProc
  /\ ret.op.type = "get"
  /\ ret.out.kind = "value"

\* What set(j, v) would leave, called in this state.
NextSet(j, v) == SetBody(Eng, j, v, NoTTL, now).eng

\* C30: a hit protects a key from the next eviction: immediately after a hit
\* on k, k is the LRU head, and the set of a new key that comes next evicts
\* k only if it evicts every other key that is present.
C30_HitProtects ==
  LastWasHit =>
    /\ lruHead = ret.op.key
    /\ \A j \in PlainKeys, v \in Values :
         (cache[j] = NoEntry /\ NextSet(j, v).cache[ret.op.key] = NoEntry)
           => (\A i \in Keys \ {j} : NextSet(j, v).cache[i] = NoEntry)

SetRuns(p) == pc[p] = "run" /\ op[p].type = "set" /\ ret'.proc = p

\* The keys a step removes from the map, the key it writes apart.
EvictedBy(k) == {j \in Keys \ {k} : cache[j] # NoEntry /\ cache'[j] = NoEntry}

\* C31: a set that needs room evicts from the LRU tail until usage + delta
\* <= maxMemory and the entry count after the insert <= maxEntries both
\* hold, or no entry remains: a set that succeeds leaves both limits
\* respected, a set that needs no room evicts nothing, and the set fails
\* with MEMORY_LIMIT_EXCEEDED only if the new entry does not fit even with
\* every other entry evicted.
C31_EvictUntilFits ==
  [][\A p \in Procs :
       SetRuns(p) =>
         \E k \in {op[p].key} :
         \E size \in {approximateMemoryUsage(k, op[p].value)} :
           /\ ret'.out = Ok
                => (/\ stats'.memoryUsage <= maxMemory
                    /\ CacheSize(cache') <= maxEntries)
           /\ ~needsEviction(Released(Eng, k), SizeIncrease(Eng, k, size),
                             cache[k] # NoEntry)
                => EvictedBy(k) = {}
           /\ ret'.out = Err("MEMORY_LIMIT_EXCEEDED") => size > maxMemory]_vars

\* The last step ran performFullGC: forceGC(true), or a cleanup tick more
\* than fullGCInterval after the last full GC.
FullGCRan ==
  /\ ret # NoReturn
  /\ ret.proc = NoProc
  /\ ret.tick \in {"forceGC", "cleanup"}
  /\ ret.recalculated

\* C32: after a full GC cycle the LRU list contains every key of the map
\* exactly once, linked from head to tail in descending lastAccessed order,
\* so that the tail, which a capacity eviction removes next, is an entry with
\* the smallest lastAccessed.
C32_FullGCRebuildsLRU ==
  FullGCRan =>
    /\ Len(Chain) = CacheSize(cache)
    /\ Range(Chain) = CacheKeys(cache)
    /\ \A i \in 1..(Len(Chain) - 1) :
         cache[Chain[i]].lastAccessed >= cache[Chain[i + 1]].lastAccessed
    /\ CacheKeys(cache) # {} =>
         (/\ lruTail = Chain[Len(Chain)]
          /\ \A k \in CacheKeys(cache) :
               cache[lruTail].lastAccessed <= cache[k].lastAccessed)

\* A step in which a cleanup tick or forceGC ran.
GCStep ==
  /\ opCount' # opCount
  /\ ret' # NoReturn
  /\ ret'.proc = NoProc
  /\ ret'.tick \in {"forceGC", "cleanup"}

\* The step ran a smart GC cycle: forceGC(false), or a cleanup tick that
\* found the cool-down of the level over.
SmartCycle ==
  /\ GCStep
  /\ IF ret'.tick = "forceGC"
       THEN ~ret'.recalculated
       ELSE shouldPerformGC(currentPressureLevel, now' - lastGCTime)

\* The step ran a full GC: forceGC(true), or a cleanup tick more than
\* fullGCInterval after the last one.
FullCycle == GCStep /\ ret'.recalculated

Elapsed(entry, t) == t > entry.created + entry.ttl * 1000

\* The unexpired and the expired entries the step found, and the unexpired
\* ones it removed.
Expiring == {k \in Keys : cache[k] # NoEntry /\ Elapsed(cache[k], now')}
UnexpiredRemoved ==
  {k \in Keys \ Expiring : cache[k] # NoEntry /\ cache'[k] = NoEntry}

SizesOf(S) == SizeOf(cache, AnyOrder(S))

\* C33: a GC cycle leaves no entry whose TTL has elapsed; under LOW and
\* MEDIUM pressure a cycle removes expired entries only; unexpired entries
\* are removed only by a smart cycle under HIGH or CRITICAL pressure; and
\* under HIGH pressure the eviction stops as soon as the bytes freed reach
\* 20% of the memory in use (no aggressive pass: the entry evicted last was
\* needed to reach the target).
C33_SmartGCByLevel ==
  [][/\ (SmartCycle \/ FullCycle) =>
         \A k \in Keys : cache'[k] # NoEntry => ~Elapsed(cache'[k], now')
     /\ (GCStep /\ currentPressureLevel \in {"LOW", "MEDIUM"}) =>
         UnexpiredRemoved = {}
     /\ (GCStep /\ UnexpiredRemoved # {}) =>
         (SmartCycle /\ currentPressureLevel \in {"HIGH", "CRITICAL"})
     /\ (GCStep /\ currentPressureLevel = "HIGH" /\ UnexpiredRemoved # {}) =>
         \E k \in UnexpiredRemoved :
           (SizesOf(UnexpiredRemoved) - cache[k].size) * 10
             < (stats.memoryUsage - SizesOf(Expiring)) * 2]_vars

\* A smart cycle under HIGH pressure evicted one of two unexpired entries.
C33_Witness ==
  /\ ret = Ticked("forceGC", FALSE)
  /\ currentPressureLevel = "HIGH"
  /\ now = 0
  /\ CacheSize(cache) = 1

\* A step in which the cleanup timer fired.
CleanupStep ==
  /\ opCount' # opCount
  /\ ret' # NoReturn
  /\ ret'.proc = NoProc
  /\ ret'.tick = "cleanup"

\* The cool-down of a pressure level (ms).
CoolDown(level) ==
  CASE level = "LOW" -> 120000
    [] level = "MEDIUM" -> 30000
    [] level = "HIGH" -> 15000
    [] level = "CRITICAL" -> 5000

NoneElapsed ==
  \A k \in Keys : cache'[k] # NoEntry => ~Elapsed(cache'[k], now')

\* C34: a cleanup tick runs a smart GC cycle exactly when the time since
\* lastGCTime exceeds the cool-down of the current level, and then sets
\* lastGCTime to the tick time; it runs a full GC exactly when the time since
\* lastFullGC exceeds 600000 ms, and then sets lastFullGC to the tick time.
\* A tick that runs neither leaves the map and both times as they were.
C34_GCPacing ==
  [][CleanupStep =>
       /\ IF now' - lastGCTime > CoolDown(currentPressureLevel)
            THEN lastGCTime' = now' /\ NoneElapsed
            ELSE lastGCTime' = lastGCTime
       /\ IF now' - lastFullGC > 600000
            THEN lastFullGC' = now' /\ ret'.recalculated /\ NoneElapsed
            ELSE lastFullGC' = lastFullGC /\ ~ret'.recalculated
       /\ (/\ now' - lastGCTime <= CoolDown(currentPressureLevel)
           /\ now' - lastFullGC <= 600000) => cache' = cache]_vars

\* Under CRITICAL pressure a tick 15000 ms after construction ran a smart
\* cycle, which under HIGH pressure it would not have.
C34_Witness ==
  /\ ret = Ticked("cleanup", FALSE)
  /\ currentPressureLevel = "CRITICAL"
  /\ now = 15000
  /\ lastGCTime = 15000
  /\ lastFullGC = 0

\* A step in which the statistics timer fired.
StatsStep ==
  /\ opCount' # opCount
  /\ ret' # NoReturn
  /\ ret'.proc = NoProc
  /\ ret'.tick = "stats"

\* The level of the band the usage falls in, the thresholds being the upper
\* ends of the bands LOW, MEDIUM and HIGH.
Band(usage) ==
  IF usage * 100 <= memoryPressureLevels.LOW * maxMemory THEN "LOW"
  ELSE IF usage * 100 <= memoryPressureLevels.MEDIUM * maxMemory THEN "MEDIUM"
  ELSE IF usage * 100 <= memoryPressureLevels.HIGH * maxMemory THEN "HIGH"
  ELSE "CRITICAL"

\* C35: a stats tick sets the pressure level to LOW when memoryUsage /
\* maxMemory is at most the LOW threshold, MEDIUM when it is above it and at
\* most the MEDIUM threshold, HIGH when it is above that and at most the HIGH
\* threshold, CRITICAL above; no other step changes the level.
C35_PressureBands ==
  [][/\ StatsStep => currentPressureLevel' = Band(stats'.memoryUsage)
     /\ ~StatsStep => currentPressureLevel' = currentPressureLevel]_vars

\* The second half alone: only a stats tick changes the level.
LevelChangesAtStatsTick ==
  [][~StatsStep => currentPressureLevel' = currentPressureLevel]_vars

\* The keys that have a node in accessOrder.
Noded == {k \in Keys : accessOrder[k] # NoNode}

\* C36: when an operation has returned, the keys that have an LRU node are
\* the keys of the map.
C36_NodesAreMapKeys ==
  (ret # NoReturn /\ ret.proc \in Procs) => Noded = CacheKeys(cache)

\* C37: every step of an operation changes stats.memoryUsage by exactly the
\* change in the sum of entry.size over the map, and stats.memoryUsage is
\* never negative.
C37_NoAccountingDrift ==
  [][/\ stats'.memoryUsage - stats.memoryUsage
          = TotalSize(cache') - TotalSize(cache)
     /\ stats'.memoryUsage >= 0]_vars

\* Caller p returns a value from a get at this step.
GetReturnsValue(p) ==
  /\ ret' # ret
  /\ ret' # NoReturn
  /\ ret'.proc = p
  /\ ret'.op.type \in {"get", "versionedGet", "versionedGetStat"}
  /\ ret'.out.kind = "value"

\* The entries under key k or under a version of it.
EntriesOf(k) ==
  {j \in Keys : cache[j] # NoEntry /\ (j = k \/ (k = BaseKey /\ j \in VersionedKeys))}

\* C38: a get that returns a value returns the value of an entry of its key
\* whose TTL has not elapsed when the get reads the clock.
C38_NoExpiredRead ==
  [][\A p \in Procs :
       GetReturnsValue(p) =>
         \E j \in EntriesOf(ret'.op.key) :
           /\ ~Elapsed(cache[j], now')
           /\ Decrypted(cache[j]) = ret'.out.v]_vars

\* The keys that match a sensitivity pattern (no value of the model does).
Sensitive == {k \in Keys : \E pattern \in sensitivePatterns : Includes(k, pattern)}

\* C39: with encryption enabled, every entry under a key that matches a
\* sensitivity pattern holds a cipher record and has encrypted = true.
C39_SensitiveEncrypted ==
  encryptionEnabled =>
    \A k \in Sensitive :
      cache[k] # NoEntry =>
        (cache[k].encrypted /\ cache[k].value >= CipherOverhead)

\* C40: the map holds no entry under a key on which access control denies
\* 'set'.
C40_NoInsertWhenSetDenied ==
  \A k \in Keys : Denied([type |-> "set", key |-> k]) => cache[k] = NoEntry

====
